---- MODULE Spec2Model ----
(***************************************************************************)
(* unichain-fetch: the request-to-archive dispatcher of src/index.js.      *)
(*                                                                         *)
(* One fetch instance (makeBitFetch) serves requests against one archive.  *)
(* The archive (Bitdrive), the DNS resolver and the stream/range libraries *)
(* are collaborators: they are modelled by their contract at the places    *)
(* src/index.js calls them.  Strings built by template literals are        *)
(* sequences of their pieces; a path is the sequence path.split('/').      *)
(***************************************************************************)
EXTENDS Integers, Sequences, FiniteSets, TLC

VARIABLES
    writable,     \* opts.writable of makeBitFetch
    isSourceBit,  \* base && base.startsWith('bit://')
    awritable,    \* archive.writable of the live archive handle
    drive,        \* the live archive: version, entries, tags, extensions, history
    peers,        \* archive.peers: the connected peers
    pending,      \* write streams piped to but not yet finished by the archive
    pc,           \* position of the request in flight
    req,          \* the request in flight (or the last one)
    resp,         \* the response (or the throw) of the last completed request
    ghost,        \* history: what earlier responses promised
    timers,       \* the timers of the peer waits that have not fired yet
    listeners,    \* the listeners attached to the archive, its feeds and its watchers
    streams,      \* the event streams handed out: streams[id] is [of, open]
    emitted,      \* the last event of the archive and what its listeners pushed
    Bitdrive,     \* opts.Bitdrive: injected, null, or the Bitdrive of the SDK
    sdk,          \* the SDK instance of makeBitFetch (null until constructed) and its state
    gettingSDK,   \* the promise of the SDK under construction (null when there is none)
    onClose,      \* what fetch.close() calls
    loads,        \* loads[i]: where request i is in loadArchive
    sdkLog        \* history: the calls of the SDK constructor, the last fetch.close()

\* the variables of the SDK's life cycle
sdkVars == <<Bitdrive, sdk, gettingSDK, onClose, loads, sdkLog>>

vars == <<writable, isSourceBit, awritable, drive, peers, pending, pc, req, resp, ghost,
          timers, listeners, streams, emitted, sdkVars>>

----------------------------------------------------------------------------
(* Bounds of the model                                                     *)

MaxVersion == 5
MaxPending == 1
MaxPeers == 1
MaxStreams == 2
MaxRequests == 3
MaxWaits == 2

----------------------------------------------------------------------------
(* Constants of src/index.js                                               *)

DEFAULT_TIMEOUT == 5000
NOT_WRITABLE_ERROR == "Archive not writable"
READABLE_ALLOW == <<"GET", "HEAD">>
WRITABLE_ALLOW == <<"PUT", "POST", "DELETE">>
ALL_ALLOW == READABLE_ALLOW \o WRITABLE_ALLOW
SPECIAL_FOLDER == <<"", "$", "">>
TAGS_FOLDER_NAME == <<"tags", "">>
TAGS_FOLDER == <<"", "$", "tags", "">>
EXTENSIONS_FOLDER_NAME == <<"extensions", "">>
EXTENSIONS_FOLDER == <<"", "$", "extensions", "">>
EXTENSION_EVENT == "extension-message"
PEER_OPEN == "peer-open"
PEER_REMOVE == "peer-remove"

----------------------------------------------------------------------------
(* Strings.  A path string is held as path.split('/'): "/a/b/" is          *)
(* <<"", "a", "b", "">>, "/" is <<"", "">> and "" is <<"">>.               *)

\* s.startsWith(prefix) for a prefix that ends with '/'
StartsWithFolder(s, prefix) ==
    /\ Len(s) >= Len(prefix)
    /\ SubSeq(s, 1, Len(prefix) - 1) = SubSeq(prefix, 1, Len(prefix) - 1)

\* s.slice(prefix.length) for a prefix that ends with '/' and starts s
SliceFolder(s, prefix) == SubSeq(s, Len(prefix), Len(s))

EndsWithSlash(s) == Len(s) >= 2 /\ s[Len(s)] = ""

StartsWithSlash(s) == Len(s) >= 2 /\ s[1] = ""

\* `${n}` for the numbers the model reaches
DecTable == <<"0", "1", "2", "3", "4", "5", "6", "7", "8", "9", "10", "11", "12">>
Dec(n) == DecTable[n + 1]

\* the elements of a list
Elements(s) == {s[i] : i \in DOMAIN s}

\* the segments that name an entry of the archive: no empty segment
NPath(path) == SelectSeq(path, LAMBDA s : s # "")

----------------------------------------------------------------------------
(* The archive collaborator (Bitdrive).  A drive is                        *)
(*   version : the number of the last metadata entry (0: not known yet)    *)
(*   entries : normalised path -> [kind, size]                             *)
(*   tags    : tag name -> version                                         *)
(*   exts    : the names of the registered extensions, one per registration *)
(*   hist    : hist[v] is the content at version v                         *)

NoEntries == <<>>
NoTags == <<>>

Snapshot(entries, tags) == [entries |-> entries, tags |-> tags]

\* every mutation appends one metadata entry
Commit(d, entries, tags) ==
    [d EXCEPT !.version = @ + 1, !.entries = entries, !.tags = tags,
              !.hist = Append(@, Snapshot(entries, tags))]

IsPrefix(p, q) == Len(p) <= Len(q) /\ SubSeq(q, 1, Len(p)) = p

HasChildren(d, p) == \E q \in DOMAIN d.entries : Len(q) > Len(p) /\ IsPrefix(p, q)

\* archive.stat(path): rejects when nothing is at the path
stat(d, path) ==
    LET p == NPath(path) IN
    IF p \in DOMAIN d.entries
    THEN [ok |-> TRUE, isDirectory |-> d.entries[p].kind = "dir", size |-> d.entries[p].size]
    ELSE IF p = <<>> \/ HasChildren(d, p)
    THEN [ok |-> TRUE, isDirectory |-> TRUE, size |-> 0]
    ELSE [ok |-> FALSE, isDirectory |-> FALSE, size |-> 0]

\* archive.readdir(path, { includeStats: true }) mapped to names, directories with '/'
readdir(d, path) ==
    LET p == NPath(path)
        kids == {q \in DOMAIN d.entries : Len(q) > Len(p) /\ IsPrefix(p, q)}
        names == {q[Len(p) + 1] : q \in kids}
        childIsDir(n) == stat(d, Append(p, n)).isDirectory
    IN {IF childIsDir(n) THEN <<n, "">> ELSE <<n>> : n \in names}

Remove(f, p) == [q \in DOMAIN f \ {p} |-> f[q]]

Put(f, p, v) == (p :> v) @@ f

\* makeDir(path, { fs: archive }): mkdir -p, one metadata entry per directory made;
\* rejects when a file is in the way
RECURSIVE makeDirFrom(_, _, _)
makeDirFrom(d, p, i) ==
    IF i > Len(p) THEN [ok |-> TRUE, drive |-> d]
    ELSE LET q == SubSeq(p, 1, i) IN
         IF q \in DOMAIN d.entries
         THEN IF d.entries[q].kind = "dir"
              THEN makeDirFrom(d, p, i + 1)
              ELSE [ok |-> FALSE, drive |-> d]
         ELSE makeDirFrom(Commit(d, Put(d.entries, q, [kind |-> "dir", size |-> 0]), d.tags),
                          p, i + 1)

makeDir(d, path) == makeDirFrom(d, NPath(path), 1)

\* the archive's write stream has finished: the file entry is committed
writeFinish(d, path, size) ==
    Commit(d, Put(d.entries, NPath(path), [kind |-> "file", size |-> size]), d.tags)

\* archive.unlink(path)
unlink(d, path) == Commit(d, Remove(d.entries, NPath(path)), d.tags)

\* archive.rmdir(path): rejects when the directory is not empty
rmdir(d, path) ==
    LET p == NPath(path) IN
    IF HasChildren(d, p) THEN [ok |-> FALSE, drive |-> d]
    ELSE IF p \in DOMAIN d.entries
    THEN [ok |-> TRUE, drive |-> Commit(d, Remove(d.entries, p), d.tags)]
    ELSE [ok |-> TRUE, drive |-> d]

\* a createTag that does not overwrite
createTag_once(d, name, version) ==
    IF name \in DOMAIN d.tags THEN d ELSE Commit(d, d.entries, Put(d.tags, name, version))

\* archive.createTag(name, version)
createTag(d, name, version) == Commit(d, d.entries, Put(d.tags, name, version))

\* a deleteTag that keeps the tag
deleteTag_keep(d, name) == d

\* archive.deleteTag(name)
deleteTag(d, name) ==
    IF name \in DOMAIN d.tags THEN Commit(d, d.entries, Remove(d.tags, name)) ELSE d

\* archive.getTaggedVersion(name): rejects when there is no such tag
getTaggedVersion(tags, name) ==
    IF name \in DOMAIN tags THEN [ok |-> TRUE, version |-> tags[name]]
    ELSE [ok |-> FALSE, version |-> 0]

\* the errors the archive raises by its contract
ENOENT == "ENOENT: no such file or directory"
ENOTEMPTY == "ENOTEMPTY: directory not empty"
EEXIST == "EEXIST: file already exists"
TAG_NOT_FOUND == "Tag not found"

----------------------------------------------------------------------------
(* Requests.  A URL is held parsed: scheme, host key, +version and the     *)
(* pathname; the headers are the ones bitFetch reads.                      *)

NoVersion == <<>>                \* no '+' in the host: version = null
NaN == -999                      \* parseInt of an empty or non-numeric string
NoRange == [eq |-> FALSE, type |-> "", specs |-> <<>>]   \* no Range header

Root == <<"", "">>
EmptyPath == <<"">>
WellKnown == <<"", ".well-known", "bit">>
RootFile == <<"", "f.txt">>
RootDir == <<"", "d", "">>
NestedFile == <<"", "a", "b", "c.txt">>
NestedDir == <<"", "a", "b", "">>
TagPath == <<"", "$", "tags", "t">>
ControlPaths ==
    { SPECIAL_FOLDER, TAGS_FOLDER, TagPath, EXTENSIONS_FOLDER,
      <<"", "$", "extensions", "x">>, <<"", "$", "extensions", "x", "p1">>,
      <<"", "$", "other">> }
FilePaths == { EmptyPath, Root, RootDir, RootFile, WellKnown }

Methods == {"GET", "HEAD", "PUT", "POST", "DELETE", "PATCH"}
VersionSpecs == { NoVersion, <<"1">>, <<"t">> }
Accepts == { {}, {"text/html"}, {"text/event-stream"}, {"text/html", "text/event-stream"} }
Ranges ==
    { [eq |-> FALSE, type |-> "bytes 0-1", specs |-> <<>>],          \* no '=': malformed
      [eq |-> TRUE, type |-> "bytes", specs |-> << <<0, 1>> >>],     \* bytes=0-1
      [eq |-> TRUE, type |-> "bytes", specs |-> << <<1, NaN>> >>],   \* bytes=1-
      [eq |-> TRUE, type |-> "bytes", specs |-> << <<NaN, 1>> >>],   \* bytes=-1
      [eq |-> TRUE, type |-> "bytes", specs |-> << <<5, 9>> >>],     \* bytes=5-9
      [eq |-> TRUE, type |-> "bytes", specs |-> << <<1, 9>> >>],     \* bytes=1-9
      [eq |-> TRUE, type |-> "bytes", specs |-> << <<2, 1>> >>],     \* bytes=2-1
      [eq |-> TRUE, type |-> "items", specs |-> << <<0, 1>> >>],     \* items=0-1
      [eq |-> TRUE, type |-> "bytes", specs |-> << <<0, 0>>, <<2, 2>> >>] }  \* bytes=0-0,2-2
BodySizes == {0, 3}

Request(scheme, host, vspec, path, method, accept, range, xclear, xdownload, noResolve, body) ==
    [scheme |-> scheme, host |-> host, vspec |-> vspec, path |-> path, method |-> method,
     accept |-> accept, range |-> range, xclear |-> xclear, xdownload |-> xdownload,
     noResolve |-> noResolve, body |-> body]

\* a request on bit://k[+vspec]path
Bit(vspec, path, method, accept, range, xclear, xdownload, noResolve, body) ==
    Request("bit", "k", vspec, path, method, accept, range, xclear, xdownload, noResolve, body)

\* Every method on every path and version spec; a header is varied where bitFetch
\* reads it.
Requests ==
    \* control namespace
    { Bit(v, p, m, {}, NoRange, FALSE, FALSE, FALSE, 0) :
        v \in VersionSpecs, p \in ControlPaths, m \in Methods \ {"GET"} }
    \cup { Bit(v, p, "GET", a, NoRange, FALSE, FALSE, FALSE, 0) :
        v \in VersionSpecs, p \in ControlPaths, a \in Accepts }
    \* file paths
    \cup { Bit(v, p, m, a, NoRange, FALSE, FALSE, nr, 0) :
        v \in VersionSpecs, p \in FilePaths, m \in {"GET", "HEAD"}, a \in Accepts,
        nr \in BOOLEAN }
    \cup { Bit(NoVersion, p, m, {}, rg, FALSE, FALSE, FALSE, 0) :
        p \in {RootFile, RootDir}, m \in {"GET", "HEAD"}, rg \in Ranges }
    \cup { Bit(NoVersion, p, m, {}, NoRange, FALSE, TRUE, FALSE, 0) :
        p \in FilePaths, m \in {"GET", "HEAD"} }
    \cup { Bit(v, p, "PUT", {}, NoRange, FALSE, FALSE, FALSE, b) :
        v \in VersionSpecs, p \in FilePaths, b \in BodySizes }
    \cup { Bit(v, p, "DELETE", {}, NoRange, xc, FALSE, FALSE, 0) :
        v \in VersionSpecs, p \in FilePaths, xc \in BOOLEAN }
    \cup { Bit(v, p, m, {}, NoRange, FALSE, FALSE, FALSE, 0) :
        v \in VersionSpecs, p \in FilePaths, m \in {"POST", "PATCH"} }
    \* other hosts and schemes
    \cup { Request(s, h, NoVersion, p, m, {}, NoRange, FALSE, FALSE, FALSE, 0) :
        s \in {"bit", "http", "none"}, h \in {"k", "nokey", "a.b", "n.x"},
        p \in {Root, TagPath}, m \in {"GET", "PUT"} }

\* The requests of the file round trips: nested writes, deletes and listings on
\* the live archive.
FileRequests ==
    { Bit(NoVersion, p, "PUT", {}, NoRange, FALSE, FALSE, FALSE, 3) :
        p \in {NestedFile, NestedDir} }
    \cup { Bit(NoVersion, p, "DELETE", {}, NoRange, xc, FALSE, FALSE, 0) :
        p \in {NestedFile, NestedDir}, xc \in BOOLEAN }
    \cup { Bit(NoVersion, p, "GET", {}, NoRange, FALSE, FALSE, FALSE, 0) :
        p \in {Root, NestedDir, NestedFile} }

\* The requests of the tag round trips: PUT, DELETE and GET of the tags t and u,
\* the listing of the tags, and a write that advances the version.
TagRequests ==
    { Bit(NoVersion, p, m, {}, NoRange, FALSE, FALSE, FALSE, 0) :
        p \in {TagPath, <<"", "$", "tags", "u">>}, m \in {"PUT", "DELETE", "GET"} }
    \cup { Bit(NoVersion, TAGS_FOLDER, "GET", {}, NoRange, FALSE, FALSE, FALSE, 0) }
    \cup { Bit(NoVersion, RootDir, m, {}, NoRange, FALSE, FALSE, FALSE, 0) :
        m \in {"PUT", "DELETE"} }

\* The requests of the peer wait: reads and a write, with and without a versionSpec.
PeerRequests ==
    { Bit(v, Root, m, {}, NoRange, FALSE, FALSE, FALSE, 0) :
        v \in VersionSpecs, m \in {"GET", "PUT"} }
    \cup { Bit(NoVersion, TagPath, "GET", {}, NoRange, FALSE, FALSE, FALSE, 0) }

\* The requests of the extensions: the listing, the peers of x, a broadcast on x, a
\* message to p1 and to p2 on x, the event stream.
ExtensionRequests ==
    { Bit(NoVersion, EXTENSIONS_FOLDER, "GET", a, NoRange, FALSE, FALSE, FALSE, 0) :
        a \in {{}, {"text/event-stream"}} }
    \cup { Bit(NoVersion, <<"", "$", "extensions", "x">>, "GET", {}, NoRange,
               FALSE, FALSE, FALSE, 0) }
    \cup { Bit(NoVersion, p, "POST", {}, NoRange, FALSE, FALSE, FALSE, 3) :
             p \in { <<"", "$", "extensions", "x">>, <<"", "$", "extensions", "x", "p1">>,
                     <<"", "$", "extensions", "x", "p2">> } }

\* The requests of the file event streams: the stream of the root, and a directory
\* made and removed.
StreamRequests ==
    { Bit(NoVersion, Root, "GET", {"text/event-stream"}, NoRange, FALSE, FALSE, FALSE, 0) }
    \cup { Bit(NoVersion, RootDir, m, {}, NoRange, FALSE, FALSE, FALSE, 0) :
             m \in {"PUT", "DELETE"} }

----------------------------------------------------------------------------
(* Responses                                                               *)

\* async function * intoAsyncIterable (data): one chunk, Buffer.from(data)
intoAsyncIterable(data) == [kind |-> "bytes", chunks |-> <<data>>]

Str(s) == [t |-> "string", s |-> s]
Json(v) == [t |-> "json", v |-> v]
Html(url, path, files) == [t |-> "html", url |-> url, path |-> path, files |-> files]
Stack(message) == [t |-> "stack", message |-> message]

Response(statusCode, headers, data) ==
    [statusCode |-> statusCode, statusText |-> "", headers |-> headers, header |-> <<>>,
     data |-> data]

\* responseHeaders[name] = value
SetHeader(rh, name, value) == (name :> value) @@ rh

\* a catch that answers every error alike
CatchResponse_plain(message, rh) ==
    [statusCode |-> 500, statusText |-> "Server Error",
     headers |-> rh, header |-> <<>>, data |-> intoAsyncIterable(Stack(message))]

\* the response of the catch at the end of bitFetch
CatchResponse(message, rh) ==
    LET isUnauthorized == (message = NOT_WRITABLE_ERROR) IN
    [statusCode |-> IF isUnauthorized THEN 403 ELSE 500,
     statusText |-> IF isUnauthorized THEN "Not Authorized" ELSE "Server Error",
     headers |-> rh, header |-> <<>>, data |-> intoAsyncIterable(Stack(message))]

\* What one run of the handler did: the response, the live drive after it, the
\* write stream it left open, the collaborator calls it made, the error raised,
\* the extension messages it handed to the archive.
Out(response, d, pend, calls, raised) ==
    [resp |-> response, drive |-> d, pend |-> pend, calls |-> calls, raised |-> raised,
     sent |-> {}]

\* extension.send(message, peer) and extension.broadcast(message)
Send(name, peer, body) == [op |-> "send", name |-> name, peer |-> peer, body |-> body]
Broadcast(name, body) == [op |-> "broadcast", name |-> name, peer |-> "", body |-> body]
Sending(out, message) == [out EXCEPT !.sent = {message}]

Thrown(message, rh, d, calls) == Out(CatchResponse(message, rh), d, <<>>, calls, message)

----------------------------------------------------------------------------
(* Helpers of src/index.js                                                 *)

\* the nondeterminism of one run: the collaborator call that rejects (if the run
\* makes it), whether the archive's write stream finishes before the body's 'end'
\* is handled, whether a checkout view reports itself writable, whether the
\* metadata sync finds a first version
Choice(fault, early, viewWritable, synced) ==
    [fault |-> fault, early |-> early, viewWritable |-> viewWritable, synced |-> synced]

Rejects(c, call) == c.fault = call

\* what a call raises: the name of the call when it is made to reject, the message
\* of its contract when it fails by it, "" when it returns
Raised(c, call, ok, message) ==
    IF Rejects(c, call) THEN call ELSE IF ok THEN "" ELSE message

\* a check that lets every write through
checkWritable_open(h) == TRUE

\* a check that looks at the writable option only
checkWritable_option(h) == writable

\* checkWritable (archive): TRUE when it returns, FALSE when it throws
checkWritable(h) == writable /\ h.writable

\* what archive.version reads after the handler's own writes: a checkout view
\* keeps its version
VersionOf(h, d) == IF h.isCheckout THEN h.version ELSE d.version

ETag(version) == <<"\"", Dec(version), "\"">>

\* mime.getType by the extension of the last segment, then getMimeType's charset
MimeType(segment) ==
    CASE segment \in {"c.txt", "f.txt"} -> <<"text/plain">>
      [] segment = "index.html" -> <<"text/html">>
      [] OTHER -> <<>>
getMimeType(path) ==
    LET found == MimeType(path[Len(path)])
        mimeType == IF found # <<>> THEN found ELSE <<"text/plain", "; charset=utf-8">>
    IN IF mimeType[1] \in {"text/plain", "text/html"}
       THEN mimeType \o <<"; charset=utf-8">> ELSE mimeType

\* renderFiles: the listing as an HTML page or as JSON, and the Content-Type
renderFiles(accept, rh, url, path, files) ==
    IF "text/html" \in accept
    THEN [rh |-> SetHeader(rh, "Content-Type", <<"text/html", "; charset=utf-8">>),
          data |-> intoAsyncIterable(Html(url, path, files))]
    ELSE [rh |-> SetHeader(rh, "Content-Type", <<"application/json", "; charset=utf-8">>),
          data |-> intoAsyncIterable(Json(files))]

\* range-parser: parseRange(size, header).  code -2: malformed, -1: unsatisfiable,
\* 0: the satisfiable ranges, in order, with the type before '='
RangeOf_unclipped(size, spec) ==
    LET start == IF spec[1] = NaN THEN size - spec[2] ELSE spec[1]
        end == IF spec[1] = NaN \/ spec[2] = NaN THEN size - 1 ELSE spec[2]
    IN [start |-> start, end |-> end, valid |-> ~(start > end \/ start < 0)]

RangeOf(size, spec) ==
    LET s0 == spec[1]
        e0 == spec[2]
        start == IF s0 = NaN THEN (IF e0 = NaN THEN NaN ELSE size - e0) ELSE s0
        e1 == IF s0 = NaN THEN size - 1 ELSE IF e0 = NaN THEN size - 1 ELSE e0
        end == IF e1 > size - 1 THEN size - 1 ELSE e1
    IN [start |-> start, end |-> end,
        valid |-> ~(start = NaN \/ end = NaN \/ start > end \/ start < 0)]
parseRange(size, header) ==
    IF ~header.eq THEN [code |-> -2, type |-> "", ranges |-> <<>>]
    ELSE LET all == [i \in 1..Len(header.specs) |-> RangeOf(size, header.specs[i])]
             ranges == SelectSeq(all, LAMBDA x : x.valid)
         IN IF Len(ranges) < 1 THEN [code |-> -1, type |-> "", ranges |-> <<>>]
            ELSE [code |-> 0, type |-> header.type, ranges |-> ranges]

\* the peers that can connect, and the extension names a peer advertises
Peers == {"p1", "p2"}
RemoteExtensions(peer) == IF peer = "p1" THEN {"x"} ELSE {}

\* a filter that keeps every connected peer
getExtensionPeers_all(name) == peers

\* getExtensionPeers (archive, name)
getExtensionPeers(name) == {peer \in peers : name \in RemoteExtensions(peer)}

\* getExtension (archive, name): registers the extension unless it exists
\* archive.registerExtension(name, { encoding, onmessage })
registerExtension(d, name) == [d EXCEPT !.exts = Append(@, name)]

\* a getExtension that registers at every reference
getExtension_again(d, name) == registerExtension(d, name)

\* getExtension (archive, name): the existing extension, or a new registration
getExtension(d, name) ==
    IF name \in Elements(d.exts) THEN d ELSE registerExtension(d, name)
getExtensionCalls(d, name) ==
    IF name \in Elements(d.exts) THEN {} ELSE {"registerExtension"}

\* listExtensionNames (archive): archive.metadata.extensions.names()
listExtensionNames(d) == d.exts

\* formatPeers (peers)
formatPeers(ps) == {[remotePublicKey |-> peer] : peer \in ps}

\* NUMBER_REGEX.test(version), and the number it is
IsNumber(v) == Len(v) = 1 /\ \E n \in 0..(Len(DecTable) - 1) : Dec(n) = v[1]
ToNumber(v) == CHOOSE n \in 0..(Len(DecTable) - 1) : Dec(n) = v[1]

----------------------------------------------------------------------------
(* bitFetch, the control namespace (path.startsWith(SPECIAL_FOLDER)).      *)
(* h is the handle the request is served from (the live archive or a       *)
(* checkout view), d the live drive, r the request, c the run's choices,   *)
(* rh the response headers so far.                                         *)

MethodNotAllowed(rh, d, calls) ==
    Out(Response(405, rh, intoAsyncIterable(Str("Method Not Allowed"))), d, <<>>, calls, "")

UrlOf(r) == <<r.scheme, r.host, r.vspec, r.path>>

\* path === SPECIAL_FOLDER
ControlRoot(h, d, r, c, rh, path) ==
    LET files == {TAGS_FOLDER_NAME, EXTENSIONS_FOLDER_NAME}
        rendered == renderFiles(r.accept, rh, UrlOf(r), path, files)
    IN IF r.method = "HEAD"
       THEN Out(Response(204, rendered.rh, intoAsyncIterable(Str(""))), d, <<>>, {}, "")
       ELSE Out(Response(200, rendered.rh, rendered.data), d, <<>>, {}, "")

\* path.startsWith(TAGS_FOLDER)
TagsFolder(h, d, r, c, rh, path) ==
    LET tagName == SliceFolder(path, TAGS_FOLDER) IN
    CASE r.method = "GET" ->
           IF path = TAGS_FOLDER
           THEN LET rh1 == SetHeader(rh, "x-is-directory", "true") IN
                IF Rejects(c, "getAllTags")
                THEN Thrown("getAllTags", rh1, d, {"getAllTags"})
                ELSE Out(Response(200,
                                  SetHeader(rh1, "Content-Type",
                                            <<"application/json", "; charset=utf-8">>),
                                  intoAsyncIterable(Json(h.tags))),
                         d, <<>>, {"getAllTags"}, "")
           ELSE LET found == getTaggedVersion(h.tags, tagName)
                    err == Raised(c, "getTaggedVersion", found.ok, TAG_NOT_FOUND)
                IN
                IF err # ""
                THEN Out(Response(404, rh, intoAsyncIterable(Str("Tag Not Found"))),
                         d, <<>>, {"getTaggedVersion"}, err)
                ELSE Out(Response(200, rh, intoAsyncIterable(Str(Dec(found.version)))),
                         d, <<>>, {"getTaggedVersion"}, "")
      [] r.method = "DELETE" ->
           IF ~checkWritable(h) THEN Thrown(NOT_WRITABLE_ERROR, rh, d, {})
           ELSE IF Rejects(c, "deleteTag") THEN Thrown("deleteTag", rh, d, {"deleteTag"})
           ELSE LET d1 == deleteTag(d, IF tagName # <<"">> THEN tagName ELSE r.vspec) IN
                Out(Response(200, SetHeader(rh, "ETag", ETag(VersionOf(h, d1))),
                             intoAsyncIterable(Str(""))),
                    d1, <<>>, {"deleteTag"}, "")
      [] r.method = "PUT" ->
           IF ~checkWritable(h) THEN Thrown(NOT_WRITABLE_ERROR, rh, d, {})
           ELSE IF Rejects(c, "createTag") THEN Thrown("createTag", rh, d, {"createTag"})
           ELSE LET tagVersion == h.version
                    d1 == createTag(d, tagName, tagVersion)
                    rh1 == SetHeader(rh, "Content-Type", <<"text/plain", "; charset=utf-8">>)
                IN Out(Response(200, SetHeader(rh1, "ETag", ETag(VersionOf(h, d1))),
                                intoAsyncIterable(Str(Dec(tagVersion)))),
                       d1, <<>>, {"createTag"}, "")
      [] r.method = "HEAD" ->
           Out(Response(204, rh, intoAsyncIterable(Str(""))), d, <<>>, {}, "")
      [] OTHER -> MethodNotAllowed(rh, d, {})

\* the marker of a branch that returns nothing: control falls out of the if
FallThrough(d, calls) == Out([statusCode |-> 0], d, <<>>, calls, "fallthrough")

IsFallThrough(out) == out.raised = "fallthrough"

\* path.startsWith(EXTENSIONS_FOLDER)
ExtensionsFolder(h, d, r, c, rh, path) ==
    IF path = EXTENSIONS_FOLDER
    THEN IF r.method = "GET"
         THEN IF "text/event-stream" \notin r.accept
              THEN LET rh1 == SetHeader(rh, "x-is-directory", "true")
                       rendered == renderFiles(r.accept, rh1, UrlOf(r), path,
                                               listExtensionNames(d))
                   IN Out(Response(204, rendered.rh, rendered.data), d, <<>>, {}, "")
              ELSE Out(Response(200, SetHeader(rh, "Content-Type", <<"text/event-stream">>),
                                [kind |-> "events", of |-> "extensions"]),
                       d, <<>>, {}, "")
         ELSE MethodNotAllowed(rh, d, {})
    ELSE LET rest == SliceFolder(path, EXTENSIONS_FOLDER)
             extensionName == rest[1]
             extensionPeer == IF Len(rest) > 1 /\ rest[2] # "" THEN rest[2] ELSE ""
             reg == getExtensionCalls(d, extensionName)
         IN CASE r.method = "POST" ->
                   LET d1 == getExtension(d, extensionName) IN
                   IF extensionPeer # ""
                   THEN IF extensionPeer \notin getExtensionPeers(extensionName)
                        THEN Out(Response(404, rh, intoAsyncIterable(Str("Peer Not Found"))),
                                 d1, <<>>, reg, "")
                        ELSE IF Rejects(c, "collect")
                        THEN Thrown("collect", rh, d1, reg \cup {"collect"})
                        ELSE Sending(Out(Response(200, rh, intoAsyncIterable(Str(""))),
                                         d1, <<>>, reg \cup {"collect", "send"}, ""),
                                     Send(extensionName, extensionPeer, r.body))
                   ELSE IF Rejects(c, "collect")
                   THEN Thrown("collect", rh, d1, reg \cup {"collect"})
                   ELSE Sending(Out(Response(200, rh, intoAsyncIterable(Str(""))),
                                    d1, <<>>, reg \cup {"collect", "broadcast"}, ""),
                                Broadcast(extensionName, r.body))
              [] r.method = "GET" ->
                   IF "text/event-stream" \notin r.accept
                   THEN LET d1 == getExtension(d, extensionName)
                            finalPeers == formatPeers(getExtensionPeers(extensionName))
                        IN Out([statusCode |-> 200, statusText |-> "", headers |-> <<>>,
                                header |-> rh, data |-> intoAsyncIterable(Json(finalPeers))],
                               d1, <<>>, reg, "")
                   ELSE FallThrough(d, {})
              [] OTHER -> MethodNotAllowed(rh, d, {})

\* lines 167-379
SpecialFolderRoute(h, d, r, c, rh, path) ==
    IF path = SPECIAL_FOLDER THEN ControlRoot(h, d, r, c, rh, path)
    ELSE IF StartsWithFolder(path, TAGS_FOLDER) THEN TagsFolder(h, d, r, c, rh, path)
    ELSE IF StartsWithFolder(path, EXTENSIONS_FOLDER) THEN ExtensionsFolder(h, d, r, c, rh, path)
    ELSE Out(Response(404, rh, intoAsyncIterable(Str("Not Found"))), d, <<>>, {}, "")

----------------------------------------------------------------------------
(* bitFetch, the file paths (lines 381-622)                                *)

\* path.split('/').slice(0, -1).join('/'), in split form
ParentDir(path) == SubSeq(path, 1, Len(path) - 1)

\* a string in split form is '' exactly when it is one empty segment
IsEmptyString(s) == s = <<"">>

\* method === 'PUT'
PutFile(h, d, r, c, rh, path) ==
    IF ~checkWritable(h) THEN Thrown(NOT_WRITABLE_ERROR, rh, d, {})
    ELSE IF EndsWithSlash(path)
    THEN LET made == makeDir(d, path) IN
         IF Rejects(c, "makeDir") THEN Thrown("makeDir", rh, d, {"makeDir"})
         ELSE IF ~made.ok THEN Thrown(EEXIST, rh, made.drive, {"makeDir"})
         ELSE Out(Response(200, SetHeader(rh, "ETag", ETag(VersionOf(h, made.drive))),
                           intoAsyncIterable(Str(""))),
                  made.drive, <<>>, {"makeDir"}, "")
    ELSE LET parentDir == ParentDir(path)
             made == IF ~IsEmptyString(parentDir) THEN makeDir(d, parentDir)
                     ELSE [ok |-> TRUE, drive |-> d]
             mk == IF ~IsEmptyString(parentDir) THEN {"makeDir"} ELSE {}
         IN IF ~IsEmptyString(parentDir) /\ Rejects(c, "makeDir")
            THEN Thrown("makeDir", rh, d, mk)
            ELSE IF ~made.ok THEN Thrown(EEXIST, rh, made.drive, mk)
            ELSE IF Rejects(c, "createWriteStream")
            THEN Thrown("createWriteStream", rh, made.drive, mk \cup {"createWriteStream"})
            ELSE \* source 'end' has won the race; the write stream finishes when it does
                 LET d1 == IF c.early THEN writeFinish(made.drive, path, r.body)
                           ELSE made.drive
                     pend == IF c.early THEN <<>>
                             ELSE <<[path |-> path, size |-> r.body]>>
                 IN Out(Response(200, SetHeader(rh, "ETag", ETag(VersionOf(h, d1))),
                                 intoAsyncIterable(Str(""))),
                        d1, pend, mk \cup {"createWriteStream"}, "")

\* a DELETE that unlinks whatever is at the path
DeleteFile_unlink(h, d, r, c, rh, path) ==
    IF r.xclear THEN Out(Response(200, rh, intoAsyncIterable(Str(""))), d, <<>>, {"clear"}, "")
    ELSE IF ~checkWritable(h) THEN Thrown(NOT_WRITABLE_ERROR, rh, d, {})
    ELSE IF ~stat(h, path).ok THEN Thrown(ENOENT, rh, d, {"stat"})
    ELSE Out(Response(200, SetHeader(rh, "ETag", ETag(VersionOf(h, unlink(d, path)))),
                      intoAsyncIterable(Str(""))),
             unlink(d, path), <<>>, {"stat", "unlink"}, "")

\* a DELETE that checks for a writable archive before it looks at x-clear
DeleteFile_guarded(h, d, r, c, rh, path) ==
    IF ~checkWritable(h) THEN Thrown(NOT_WRITABLE_ERROR, rh, d, {})
    ELSE IF r.xclear
    THEN Out(Response(200, rh, intoAsyncIterable(Str(""))), d, <<>>, {"clear"}, "")
    ELSE DeleteFile_unlink(h, d, r, c, rh, path)

\* method === 'DELETE'
DeleteFile(h, d, r, c, rh, path) ==
    IF r.xclear
    THEN IF Rejects(c, "clear") THEN Thrown("clear", rh, d, {"clear"})
         ELSE Out(Response(200, rh, intoAsyncIterable(Str(""))), d, <<>>, {"clear"}, "")
    ELSE IF ~checkWritable(h) THEN Thrown(NOT_WRITABLE_ERROR, rh, d, {})
    ELSE LET st == stat(h, path)
             err == Raised(c, "stat", st.ok, ENOENT)
         IN
         IF err # "" THEN Thrown(err, rh, d, {"stat"})
         ELSE IF st.isDirectory
         THEN LET removed == rmdir(d, path)
                  failed == Raised(c, "rmdir", removed.ok, ENOTEMPTY)
              IN
              IF failed # ""
              THEN Thrown(failed, rh, d, {"stat", "rmdir"})
              ELSE Out(Response(200, SetHeader(rh, "ETag", ETag(VersionOf(h, removed.drive))),
                                intoAsyncIterable(Str(""))),
                       removed.drive, <<>>, {"stat", "rmdir"}, "")
         ELSE IF Rejects(c, "unlink") THEN Thrown("unlink", rh, d, {"stat", "unlink"})
         ELSE LET d1 == unlink(d, path) IN
              Out(Response(200, SetHeader(rh, "ETag", ETag(VersionOf(h, d1))),
                           intoAsyncIterable(Str(""))),
                  d1, <<>>, {"stat", "unlink"}, "")

\* resolveBitPath(archive, path): the path itself, or the index document of a
\* directory that has one; rejects when nothing is there
resolveBitPath(h, path) ==
    LET st == stat(h, path)
        index == NPath(path) \o <<"index.html">>
    IN IF st.ok /\ st.isDirectory /\ index \in DOMAIN h.entries
       THEN [ok |-> TRUE, path |-> <<"">> \o index, stat |-> stat(h, index)]
       ELSE [ok |-> st.ok, path |-> path, stat |-> st]

\* the file and directory part of GET and HEAD (lines 503-615)
GetFile(h, d, r, c, rh, path) ==
    LET dl == IF r.xdownload THEN {"download"} ELSE {} IN
    IF r.xdownload /\ Rejects(c, "download") THEN Thrown("download", rh, d, dl)
    ELSE IF path = WellKnown
    THEN Out(Response(200, rh, intoAsyncIterable(Str(<<"bit://", "k", "\nttl=3600">>))),
             d, <<>>, dl, "")
    ELSE LET resolved == IF r.noResolve
                         THEN [ok |-> stat(h, path).ok, path |-> path, stat |-> stat(h, path)]
                         ELSE resolveBitPath(h, path)
             look == dl \cup {IF r.noResolve THEN "stat" ELSE "resolveBitPath"}
             err == Raised(c, "stat", resolved.ok, ENOENT)
         IN IF err # ""
            THEN Out(Response(404, SetHeader(rh, "Content-Type",
                                             <<"text/plain", "; charset=utf-8">>),
                              intoAsyncIterable(Stack(err))),
                     d, <<>>, look, err)
            ELSE LET finalPath == resolved.path
                     st == resolved.stat
                     rh1 == SetHeader(SetHeader(rh, "Content-Type", getMimeType(finalPath)),
                                      "Last-Modified", "mtime")
                 IN IF st.isDirectory
                    THEN IF Rejects(c, "readdir")
                         THEN Thrown("readdir", SetHeader(rh1, "x-is-directory", "true"), d,
                                     look \cup {"readdir"})
                         ELSE LET listed == readdir(h, finalPath)
                                  files == IF finalPath = Root THEN listed \cup {<<"$", "">>}
                                           ELSE listed
                                  rendered == renderFiles(r.accept,
                                                          SetHeader(rh1, "x-is-directory", "true"),
                                                          UrlOf(r), path, files)
                              IN IF r.method = "HEAD"
                                 THEN Out(Response(204, rendered.rh, intoAsyncIterable(Str(""))),
                                          d, <<>>, look \cup {"readdir"}, "")
                                 ELSE Out(Response(200, rendered.rh, rendered.data),
                                          d, <<>>, look \cup {"readdir"}, "")
                    ELSE LET rh2 == SetHeader(rh1, "Accept-Ranges", "bytes")
                             rh3 == IF Rejects(c, "stats") THEN rh2
                                    ELSE SetHeader(SetHeader(rh2, "X-Blocks", "blocks"),
                                                   "X-Blocks-Downloaded", "downloadedBlocks")
                             size == st.size
                             rh4 == SetHeader(rh3, "Content-Length", Dec(size))
                             ranges == parseRange(size, r.range)
                             honoured == r.range # NoRange /\ ranges.code = 0
                                         /\ Len(ranges.ranges) > 0 /\ ranges.type = "bytes"
                             start == ranges.ranges[1].start
                             end == ranges.ranges[1].end
                             rh5 == IF honoured
                                    THEN SetHeader(SetHeader(rh4, "Content-Length",
                                                             Dec(end - start + 1)),
                                                   "Content-Range",
                                                   <<"bytes ", Dec(start), "-", Dec(end),
                                                     "/", Dec(size)>>)
                                    ELSE rh4
                             data == IF honoured
                                     THEN [kind |-> "readStream", path |-> finalPath,
                                           start |-> start, end |-> end]
                                     ELSE [kind |-> "readStream", path |-> finalPath,
                                           start |-> 0, end |-> size - 1]
                         IN IF r.method = "HEAD"
                            THEN Out(Response(204, rh5, intoAsyncIterable(Str(""))),
                                     d, <<>>, look \cup {"stats"}, "")
                            ELSE Out(Response(IF honoured THEN 206 ELSE 200, rh5, data),
                                     d, <<>>, look \cup {"stats", "createReadStream"}, "")

\* (method === 'GET') || (method === 'HEAD')
GetOrHead(h, d, r, c, rh, path) ==
    IF r.method = "GET" /\ r.accept = {"text/event-stream"}
    THEN IF Rejects(c, "getContent") THEN Thrown("getContent", rh, d, {"getContent"})
         ELSE Out(Response(200, SetHeader(rh, "Content-Type", <<"text/event-stream">>),
                           [kind |-> "events", of |-> "file"]),
                  d, <<>>, {"getContent"}, "")
    ELSE GetFile(h, d, r, c, rh, path)

\* lines 381-622
FileRoute(h, d, r, c, rh, path) ==
    CASE r.method = "PUT" -> PutFile(h, d, r, c, rh, path)
      [] r.method = "DELETE" -> DeleteFile(h, d, r, c, rh, path)
      [] r.method \in {"GET", "HEAD"} -> GetOrHead(h, d, r, c, rh, path)
      [] OTHER -> MethodNotAllowed(rh, d, {})

----------------------------------------------------------------------------
(* bitFetch, from the URL to the router (lines 93-165)                     *)

BaseHeaders ==
    ("Access-Control-Allow-Origin" :> "*") @@ ("Allow-CSP-From" :> "*")
        @@ ("Access-Control-Allow-Headers" :> "*")

\* isBitURL || (!urlHasProtocol && isSourceBit)
shouldIntercept(r) == r.scheme = "bit" \/ (r.scheme = "none" /\ isSourceBit)

\* parseBitURL (url): new URL(url) throws on a URL without a protocol
parseBitURL(r) ==
    [ok |-> r.scheme # "none", pathname |-> r.path, key |-> r.host, version |-> r.vspec]

\* if (!path) path = '/'; if (!path.startsWith('/')) path = '/' + path
NormalPath(pathname) ==
    LET path == IF IsEmptyString(pathname) THEN Root ELSE pathname
    IN IF ~StartsWithSlash(path) THEN <<"">> \o path ELSE path

\* resolveURL(`bit://${key}`): the hostname it resolves to
resolveURL(key) ==
    CASE key = "a.b" -> [ok |-> TRUE, hostname |-> "k"]
      [] key = "n.x" -> [ok |-> FALSE, hostname |-> ""]
      [] OTHER -> [ok |-> TRUE, hostname |-> key]

HasDot(key) == key \in {"a.b", "n.x"}

\* loadArchive (key): Bitdrive(key) knows one archive
loadArchive(key) == key = "k"

LiveHandle(d) ==
    [version |-> d.version, entries |-> d.entries, tags |-> d.tags,
     writable |-> awritable, isCheckout |-> FALSE]

\* archive.checkout(version)
checkout(d, version, c) ==
    LET snap == IF version \in 1..Len(d.hist) THEN d.hist[version]
                ELSE Snapshot(NoEntries, NoTags)
    IN [version |-> version, entries |-> snap.entries, tags |-> snap.tags,
        writable |-> c.viewWritable, isCheckout |-> TRUE]

\* where a run ended (before or in the router) and the writable flag of the handle
\* it was served from
Staged(out, stage, handleWritable) ==
    [resp |-> out.resp, drive |-> out.drive, pend |-> out.pend, calls |-> out.calls,
     raised |-> out.raised, sent |-> out.sent, stage |-> stage,
     handleWritable |-> handleWritable, steps |-> <<>>]

\* the steps the run took before the router, in their order: "wait" (the peer
\* wait), "update" (the metadata sync), "checkout"
Stepped(staged, steps) == [staged EXCEPT !.steps = steps \o @]

\* a control route that did not return falls through to the file routes
OrFileRoute(special, file) == IF IsFallThrough(special) THEN file ELSE special

\* lines 157-165, then the router
Route(h, d, r, c, rh0, path) ==
    LET canonical == <<"bit://", "k", path>>
        rh1 == SetHeader(rh0, "Link", <<"<", canonical, ">; rel=\"canonical\"">>)
        isWritable == writable /\ h.writable
        allowHeaders == IF isWritable THEN ALL_ALLOW ELSE READABLE_ALLOW
        rh2 == SetHeader(rh1, "Allow", allowHeaders)
        rh3 == SetHeader(rh2, "ETag", ETag(h.version))
        routed == IF StartsWithFolder(path, SPECIAL_FOLDER)
                  THEN OrFileRoute(SpecialFolderRoute(h, d, r, c, rh3, path),
                                   FileRoute(h, d, r, c, rh3, path))
                  ELSE FileRoute(h, d, r, c, rh3, path)
    IN Staged(routed, "route", h.writable)

\* lines 148-155: the handle the request is served from; raised names the call
\* that rejected
Handle(d, r, c) ==
    IF r.vspec = NoVersion THEN [raised |-> "", calls |-> {}, h |-> LiveHandle(d)]
    ELSE IF IsNumber(r.vspec)
    THEN IF Rejects(c, "checkout")
         THEN [raised |-> "checkout", calls |-> {"checkout"}, h |-> LiveHandle(d)]
         ELSE [raised |-> "", calls |-> {"checkout"}, h |-> checkout(d, ToNumber(r.vspec), c)]
    ELSE LET tagged == getTaggedVersion(d.tags, r.vspec)
             err == Raised(c, "getTaggedVersion", tagged.ok, TAG_NOT_FOUND)
         IN
         IF err # ""
         THEN [raised |-> err, calls |-> {"getTaggedVersion"}, h |-> LiveHandle(d)]
         ELSE IF Rejects(c, "checkout")
         THEN [raised |-> "checkout", calls |-> {"getTaggedVersion", "checkout"},
               h |-> LiveHandle(d)]
         ELSE [raised |-> "", calls |-> {"getTaggedVersion", "checkout"},
               h |-> checkout(d, tagged.version, c)]

\* a test that takes every version for unknown
versionUnknown_always(d) == TRUE

\* !archive.version
versionUnknown(d) == d.version = 0

\* lines 140-155: the metadata sync when the version is not known, the checkout
Serve(d, r, c, rh0, path) ==
    LET unknown == versionUnknown(d)
        d1 == IF unknown /\ c.synced THEN Commit(d, d.entries, d.tags) ELSE d
        co == Handle(d1, r, c)
        synced == IF unknown THEN <<"update">> ELSE <<>>
        checked == IF "checkout" \in co.calls THEN <<"checkout">> ELSE <<>>
    IN IF unknown /\ Rejects(c, "update")
       THEN Stepped(Staged(Thrown("update", rh0, d, {"update"}), "update", awritable),
                    synced)
       ELSE IF co.raised # ""
       THEN Stepped(Staged(Thrown(co.raised, rh0, d1, co.calls), "checkout", awritable),
                    synced \o checked)
       ELSE Stepped(Route(co.h, d1, r, c, rh0, path), synced \o checked)

\* lines 108-139: the front of the handler.  next is "throw" (not intercepted),
\* "done" (out is the response), "wait" (no version, no peer) or "serve"
Front(d, r, c) ==
    IF ~shouldIntercept(r)
    THEN [next |-> "throw", out |-> Staged(Out(<<>>, d, <<>>, {}, "Invalid protocol"), "url", FALSE)]
    ELSE LET parsed == parseBitURL(r)
             path == NormalPath(parsed.pathname)
             resolvedURL == resolveURL(parsed.key)
             dnsOk == resolvedURL.ok /\ ~Rejects(c, "resolveURL")
             key == IF dnsOk THEN resolvedURL.hostname ELSE parsed.key
             End(out, stage) == [next |-> "done", out |-> Staged(out, stage, FALSE)]
         IN IF ~parsed.ok THEN End(Thrown("Invalid URL", BaseHeaders, d, {}), "url")
            ELSE IF ~dnsOk /\ HasDot(parsed.key)
            THEN End(Thrown("resolveURL", BaseHeaders, d, {"resolveURL"}), "resolveURL")
            ELSE IF Rejects(c, "loadArchive")
            THEN End(Thrown("loadArchive", BaseHeaders, d, {"resolveURL", "loadArchive"}),
                     "loadArchive")
            ELSE IF ~loadArchive(key)
            THEN End(Out(Response(404, BaseHeaders, intoAsyncIterable(Str("Unknown drive"))),
                         d, <<>>, {"resolveURL", "loadArchive"}, ""), "loadArchive")
            ELSE IF Rejects(c, "ready")
            THEN [next |-> "done",
                  out |-> Staged(Thrown("ready", BaseHeaders, d,
                                        {"resolveURL", "loadArchive", "ready"}),
                                 "ready", awritable)]
            ELSE IF versionUnknown(d) /\ peers = {}
            THEN [next |-> "wait",
                  out |-> Staged(Out(<<>>, d, <<>>, {"resolveURL", "loadArchive", "ready"}, ""),
                                 "wait", awritable)]
            ELSE [next |-> "serve", out |-> Serve(d, r, c, BaseHeaders, path)]

----------------------------------------------------------------------------
(* The nondeterminism drawn with a request                                 *)

IsFilePath(r) == ~StartsWithFolder(NormalPath(r.path), SPECIAL_FOLDER)

\* the collaborator calls that may reject in a run of r
Faults(r) ==
    LET path == NormalPath(r.path)
        plain == r.accept = {} /\ r.range = NoRange /\ ~r.noResolve /\ ~r.xdownload
    IN {"none"}
       \cup (IF r.host = "k" /\ r.scheme = "bit" /\ r.method = "GET" /\ path = Root /\ plain
             THEN {"resolveURL", "loadArchive", "ready", "update", "checkout",
                   "getTaggedVersion"}
             ELSE {})
       \cup (IF StartsWithFolder(path, TAGS_FOLDER)
             THEN CASE r.method = "GET" /\ r.accept = {} -> {"getAllTags", "getTaggedVersion"}
                    [] r.method = "DELETE" -> {"deleteTag"}
                    [] r.method = "PUT" -> {"createTag"}
                    [] OTHER -> {}
             ELSE {})
       \cup (IF StartsWithFolder(path, EXTENSIONS_FOLDER) /\ r.method = "POST"
             THEN {"collect"} ELSE {})
       \cup (IF IsFilePath(r)
             THEN CASE r.method = "PUT" -> {"makeDir", "createWriteStream"}
                    [] r.method = "DELETE" -> {"clear", "stat", "rmdir", "unlink"}
                    [] r.method \in {"GET", "HEAD"} /\ r.range = NoRange /\ ~r.noResolve
                       /\ r.accept \in {{}, {"text/event-stream"}} ->
                         {"stat", "stats", "readdir", "download", "getContent"}
                    [] OTHER -> {}
             ELSE {})

\* the names of the collaborator calls
CollaboratorCalls ==
    {"resolveURL", "loadArchive", "ready", "update", "checkout", "getTaggedVersion",
     "getAllTags", "deleteTag", "createTag", "collect", "makeDir", "createWriteStream",
     "clear", "stat", "rmdir", "unlink", "stats", "readdir", "download", "getContent"}

Choices(r) ==
    { Choice(f, e, vw, sy) :
        f \in Faults(r),
        e \in (IF r.method = "PUT" /\ IsFilePath(r) THEN BOOLEAN ELSE {FALSE}),
        vw \in (IF r.vspec # NoVersion THEN {awritable, FALSE} ELSE {awritable}),
        sy \in (IF drive.version = 0 THEN BOOLEAN ELSE {FALSE}) }

----------------------------------------------------------------------------
(* History variables: what the responses returned so far have promised     *)

NoRequest == Request("", "", NoVersion, <<"">>, "", {}, NoRange, FALSE, FALSE, FALSE, 0)
NoResponse ==
    [resp |-> <<>>, calls |-> {}, raised |-> "", sent |-> {}, stage |-> "",
     handleWritable |-> FALSE, before |-> <<>>, pend |-> <<>>, steps |-> <<>>,
     peersBefore |-> {}]

IsTagPath(r) ==
    LET path == NormalPath(r.path) IN
    StartsWithFolder(path, TAGS_FOLDER) /\ path # TAGS_FOLDER

TagNameOf(r) == SliceFolder(NormalPath(r.path), TAGS_FOLDER)

Routed(rs) == rs.stage = "route"

Status(rs) == rs.resp.statusCode

\* the text of a one-chunk body
BodyText(rs) == rs.resp.data.chunks[1]

\* the version an ETag header carries
ETagVersion(rs) == ToNumber(<<rs.resp.headers["ETag"][2]>>)

\* a GET of /$/extensions/X that is not for an event stream
IsExtensionGet(r) ==
    LET path == NormalPath(r.path) IN
    /\ StartsWithFolder(path, EXTENSIONS_FOLDER) /\ path # EXTENSIONS_FOLDER
    /\ r.method = "GET" /\ "text/event-stream" \notin r.accept

ExtensionNameOf(r) == SliceFolder(NormalPath(r.path), EXTENSIONS_FOLDER)[1]

IsFileWrite(r) ==
    /\ IsFilePath(r)
    /\ \/ r.method = "PUT" /\ ~EndsWithSlash(NormalPath(r.path))
       \/ r.method = "DELETE" /\ ~r.xclear

\* the history after request r was answered with rs; track names the parts kept
GhostAfter(g, r, rs, track) ==
    LET ok == Routed(rs) /\ Status(rs) = 200
        tagLog == IF ok /\ IsTagPath(r) /\ r.method = "PUT"
                  THEN Put(g.tagLog, TagNameOf(r), ToNumber(<<BodyText(rs).s>>))
                  ELSE IF ok /\ IsTagPath(r) /\ r.method = "DELETE"
                  THEN Remove(g.tagLog, TagNameOf(r))
                  ELSE g.tagLog
        isGet == Routed(rs) /\ r.method = "GET" /\ r.vspec = NoVersion
                 /\ "ETag" \in DOMAIN rs.resp.headers
        isWrite == ok /\ r.vspec = NoVersion /\ IsFileWrite(r)
        path == NPath(NormalPath(r.path))
        putOk == IF isWrite /\ r.method = "PUT" THEN g.putOk \cup {path}
                 ELSE IF ok /\ IsFilePath(r) /\ r.method = "DELETE" /\ ~r.xclear
                 THEN {q \in g.putOk : ~IsPrefix(path, q)}
                 ELSE g.putOk
    IN [tagLog |-> IF "tags" \in track THEN tagLog ELSE g.tagLog,
        lastGet |-> IF "etag" \in track /\ isGet THEN ETagVersion(rs) ELSE g.lastGet,
        wrote |-> IF "etag" \in track
                  THEN (IF isGet THEN FALSE ELSE (g.wrote \/ isWrite)) ELSE g.wrote,
        putOk |-> IF "put" \in track THEN putOk ELSE g.putOk,
        gets |-> IF "gets" \in track /\ ok /\ IsExtensionGet(r)
                 THEN g.gets \cup {ExtensionNameOf(r)} ELSE g.gets]

----------------------------------------------------------------------------
(* Event streams.  The EventIterator of a response calls its listen        *)
(* function when the consumer starts to read, and the function that listen *)
(* returned when the consumer is gone.  A listener is the function fn of   *)
(* the closure of stream id, attached to an event of an emitter: the       *)
(* archive, its metadata feed, its content feed, the watcher of the path.  *)

Listener(emitter, event, fn, id) ==
    [emitter |-> emitter, event |-> event, fn |-> fn, stream |-> id]

\* a teardown that leaves the peer listeners attached
ExtensionsRemove_partial(id) == { Listener("archive", EXTENSION_EVENT, "onMessage", id) }

\* GET /$/extensions/ as an event stream: archive.on (lines 294-296)
ExtensionsListen(id) ==
    { Listener("archive", EXTENSION_EVENT, "onMessage", id),
      Listener("archive", PEER_OPEN, "onPeerOpen", id),
      Listener("archive", PEER_REMOVE, "onPeerRemove", id) }

\* and archive.removeListener (lines 297-301)
ExtensionsRemove(id) ==
    { Listener("archive", EXTENSION_EVENT, "onMessage", id),
      Listener("archive", PEER_OPEN, "onPeerOpen", id),
      Listener("archive", PEER_REMOVE, "onPeerRemove", id) }

\* GET of a file path as an event stream: archive.watch and the feeds' on
\* (lines 442-447, 476-479)
FileListen(id) ==
    { Listener("watcher", "change", "onChange", id),
      Listener("watcher", "error", "fail", id),
      Listener("metadata", "download", "onDownloadMetadata", id),
      Listener("metadata", "upload", "onUploadMetadata", id),
      Listener("content", "download", "onDownloadContent", id),
      Listener("content", "upload", "onUploadMetadata", id) }

\* and watcher.destroy() and the feeds' removeListener (lines 480-486)
FileRemove(id) ==
    { Listener("watcher", "change", "onChange", id),
      Listener("watcher", "error", "fail", id),
      Listener("metadata", "download", "onDownloadMetadata", id),
      Listener("metadata", "upload", "onUploadMetadata", id),
      Listener("content", "download", "onDownloadContent", id),
      Listener("content", "upload", "onUploadContent", id) }

\* what the function fn pushes into its stream when it is called with ev
Pushed(fn, ev) ==
    CASE fn = "onMessage" -> [id |-> ev.peer, event |-> ev.name, data |-> ev.content]
      [] fn = "onPeerOpen" -> [id |-> ev.peer, event |-> PEER_OPEN, data |-> <<>>]
      [] fn = "onPeerRemove" -> [id |-> ev.peer, event |-> PEER_REMOVE, data |-> <<>>]
      [] fn = "onChange" -> [id |-> "", event |-> "change", data |-> ev.version]
      [] fn \in {"onDownloadMetadata", "onUploadMetadata"} ->
           [id |-> "", event |-> "download",
            data |-> [index |-> ev.index, source |-> "metadata"]]
      [] fn \in {"onDownloadContent", "onUploadContent"} ->
           [id |-> "", event |-> "download",
            data |-> [index |-> ev.index, source |-> "content"]]

NoEmission ==
    [cause |-> [emitter |-> "", event |-> "", ev |-> <<>>], open |-> {}, pushed |-> {},
     late |-> {}]

\* archive.once('peer-open', resolve) of the peer wait (line 137): the listeners
\* that the waits of requests have attached and that no peer-open has called yet;
\* the n-th of them is Listener("archive", PEER_OPEN, "resolve", -n)
WaitListeners == {l \in listeners : l.fn = "resolve"}

\* emitter.emit(event, ev): every listener attached to the event is called; what
\* a listener of a stream pushes into a stream that is closed is dropped.  With no
\* listener of a stream attached nothing is pushed.
Emit(emitter, event, ev) ==
    LET called == {l \in listeners : l.emitter = emitter /\ l.event = event
                                     /\ l.stream \in DOMAIN streams} IN
    IF called = {} THEN emitted
    ELSE [cause |-> [emitter |-> emitter, event |-> event, ev |-> ev],
          open |-> {id \in DOMAIN streams : streams[id].open},
          pushed |-> { [stream |-> l.stream, fn |-> l.fn, item |-> Pushed(l.fn, ev)] :
                         l \in {c \in called : streams[c.stream].open} },
          late |-> {l \in called : ~streams[l.stream].open}]

\* the block indexes and the message contents (content.split('\n')) that the
\* events carry
Indexes == {0, 1}
Contents == {<<"hi">>, <<"a", "b">>}

----------------------------------------------------------------------------
(* The state machine                                                       *)

\* an archive of a peer, not loaded yet: its version is not known
Unknown == [version |-> 0, entries |-> NoEntries, tags |-> NoTags, exts |-> <<>>, hist |-> <<>>]

\* a new archive
Empty == Commit(Unknown, NoEntries, NoTags)

\* an archive with a directory /d/, a file /f.txt of 3 bytes and the tag t at the
\* version before the file
Stocked == createTag(writeFinish(makeDir(Empty, RootDir).drive, RootFile, 3), <<"t">>, 2)

\* a request that is not in loadArchive
NotLoading == [at |-> "idle", got |-> "null"]

\* the state after makeBitFetch(opts): opts.writable, opts.Bitdrive, and the
\* archive behind the key k.  An archive whose version is not known is a peer's,
\* not writable here.
InitWith(drives, bitdrives) ==
    /\ Bitdrive \in bitdrives
    /\ sdk = "null"
    /\ gettingSDK = "null"
    /\ onClose = "undefined"
    /\ loads = [i \in 1..MaxRequests |-> NotLoading]
    /\ sdkLog = [constructed |-> 0, closed |-> FALSE, atClose |-> "null"]
    /\ writable \in BOOLEAN
    /\ isSourceBit \in BOOLEAN
    /\ awritable \in BOOLEAN
    /\ drive \in drives
    /\ drive.version = 0 => ~awritable
    /\ peers = {}
    /\ pending = <<>>
    /\ pc = "idle"
    /\ req = NoRequest
    /\ resp = NoResponse
    /\ ghost = [tagLog |-> NoTags, lastGet |-> -1, wrote |-> FALSE, putOk |-> {},
                gets |-> {}]
    /\ timers = {}
    /\ listeners = {}
    /\ streams = <<>>
    /\ emitted = NoEmission

\* makeBitFetch({ Bitdrive, ... }): the archive provider is injected
InitOf(drives) == InitWith(drives, {"injected"})

\* the run ends with a response: its effects on the archive are in place; before
\* keeps the archive as the run found it, pend the write stream the run left open
Finish(r, out) ==
    /\ out.drive.version + Len(pending \o out.pend) <= MaxVersion
    /\ Len(pending \o out.pend) <= MaxPending
    /\ pc' = "done"
    /\ req' = r
    /\ resp' = [resp |-> out.resp, calls |-> out.calls, raised |-> out.raised,
                sent |-> out.sent, stage |-> out.stage,
                handleWritable |-> out.handleWritable, before |-> drive,
                pend |-> out.pend, steps |-> out.steps,
                peersBefore |-> IF pc = "idle" THEN peers ELSE resp.peersBefore]
    /\ drive' = out.drive
    /\ pending' = pending \o out.pend

\* setTimeout(() => reject(...), timeout): a timer and the state of its promise
Timer(promise) == [ms |-> DEFAULT_TIMEOUT, promise |-> promise]

\* where the front of bitFetch leaves the run of r
Dispatch(r, front) ==
    CASE front.next = "throw" ->
           /\ pc' = "thrown"
           /\ req' = r
           /\ resp' = [NoResponse EXCEPT !.raised = front.out.raised, !.stage = "url"]
           /\ UNCHANGED <<drive, pending, timers, listeners>>
      [] front.next = "wait" ->
           /\ pc' = "waitPeer"
           /\ req' = r
           /\ resp' = [NoResponse EXCEPT !.calls = front.out.calls, !.stage = "wait",
                                         !.before = drive, !.steps = <<"wait">>,
                                         !.peersBefore = peers]
           /\ timers' = timers \cup {Timer("pending")}
           /\ Cardinality(WaitListeners) < MaxWaits
           /\ listeners' = listeners \cup
                 {Listener("archive", PEER_OPEN, "resolve", -(Cardinality(WaitListeners) + 1))}
           /\ UNCHANGED <<drive, pending>>
      [] OTHER -> Finish(r, front.out) /\ UNCHANGED <<timers, listeners>>

\* fetch(url, { method, headers, body }): bitFetch up to its response, its throw,
\* or its wait for a first peer
bitFetch(requests) ==
    /\ pc = "idle"
    /\ \E r \in requests : \E c \in Choices(r) : Dispatch(r, Front(drive, r, c))
    /\ UNCHANGED <<sdkVars, writable, isSourceBit, awritable, peers, ghost, streams, emitted>>

\* the archive emits 'peer-open': a waiting request's promise resolves, the once
\* listeners of the waits are called and gone, the extension streams hear of the
\* peer
PeerOpen ==
    /\ pc \in {"idle", "waitPeer"}
    /\ Cardinality(peers) < MaxPeers
    /\ \E peer \in Peers \ peers :
         /\ peers' = peers \cup {peer}
         /\ emitted' = Emit("archive", PEER_OPEN, [peer |-> peer])
    /\ pc' = IF pc = "waitPeer" THEN "resumed" ELSE pc
    /\ timers' = IF pc = "waitPeer"
                 THEN (timers \ {Timer("pending")}) \cup {Timer("settled")} ELSE timers
    /\ listeners' = listeners \ WaitListeners
    /\ UNCHANGED <<sdkVars, writable, isSourceBit, awritable, drive, pending, req, resp, ghost,
                   streams>>

\* the archive emits 'peer-remove'
PeerRemove ==
    /\ pc = "idle"
    /\ \E peer \in peers :
         /\ peers' = peers \ {peer}
         /\ emitted' = Emit("archive", PEER_REMOVE, [peer |-> peer])
    /\ UNCHANGED <<sdkVars, writable, isSourceBit, awritable, drive, pending, pc, req, resp, ghost,
                   timers, listeners, streams>>

\* a timer that fails the request in flight whenever it fires
TimerLate_fails ==
    /\ Timer("settled") \in timers
    /\ pc = "resumed"
    /\ timers' = timers \ {Timer("settled")}
    /\ Finish(req, Stepped(Staged(Thrown("Timed out looking for peers", BaseHeaders, drive, {}),
                                  "wait", awritable),
                           resp.steps))
    /\ UNCHANGED <<sdkVars, writable, isSourceBit, awritable, peers, ghost, listeners, streams,
                   emitted>>

\* the timer of the peer wait fires first: reject(new Error('Timed out looking for
\* peers')), and nothing else: the listener of the wait stays on the archive
PeerTimeout ==
    /\ pc = "waitPeer"
    /\ Timer("pending") \in timers
    /\ timers' = timers \ {Timer("pending")}
    /\ Finish(req, Stepped(Staged(Thrown("Timed out looking for peers", BaseHeaders, drive,
                                         resp.calls),
                                  "wait", awritable),
                           resp.steps))
    /\ UNCHANGED <<sdkVars, writable, isSourceBit, awritable, peers, ghost, listeners, streams,
                   emitted>>

\* the timer of a peer wait fires after a peer has opened: its reject finds the
\* promise settled
TimerLate ==
    /\ Timer("settled") \in timers
    /\ timers' = timers \ {Timer("settled")}
    /\ UNCHANGED <<sdkVars, writable, isSourceBit, awritable, drive, peers, pending, pc, req, resp,
                   ghost, listeners, streams, emitted>>

\* bitFetch after the peer wait: sync, checkout, router
Resume ==
    /\ pc = "resumed"
    /\ \E c \in Choices(req) :
         Finish(req, Stepped(Serve(drive, req, c, BaseHeaders, NormalPath(req.path)),
                             resp.steps))
    /\ UNCHANGED <<sdkVars, writable, isSourceBit, awritable, peers, ghost, timers, listeners,
                   streams, emitted>>

\* the archive finishes a write stream: the file is committed
WriteFinish ==
    /\ pc = "idle"
    /\ pending # <<>>
    /\ drive' = writeFinish(drive, Head(pending).path, Head(pending).size)
    /\ pending' = Tail(pending)
    /\ UNCHANGED <<sdkVars, writable, isSourceBit, awritable, peers, pc, req, resp, ghost,
                   timers, listeners, streams, emitted>>

\* the caller has the response (or the rejection): the next request can follow
Return(track) ==
    /\ pc \in {"done", "thrown"}
    /\ pc' = "idle"
    /\ ghost' = IF pc = "done" THEN GhostAfter(ghost, req, resp, track) ELSE ghost
    /\ req' = NoRequest
    /\ resp' = NoResponse
    /\ UNCHANGED <<sdkVars, writable, isSourceBit, awritable, drive, peers, pending,
                   timers, listeners, streams, emitted>>

\* the caller starts to read the event stream of the response: the EventIterator
\* calls its listen function, which attaches the listeners
Read ==
    /\ pc = "done"
    /\ resp.resp.data.kind = "events"
    /\ Len(streams) < MaxStreams
    /\ LET id == Len(streams) + 1
           of == resp.resp.data.of
       IN /\ streams' = Append(streams, [of |-> of, open |-> TRUE])
          /\ listeners' = listeners \cup
                            (IF of = "file" THEN FileListen(id) ELSE ExtensionsListen(id))
    /\ pc' = "idle"
    /\ req' = NoRequest
    /\ resp' = NoResponse
    /\ UNCHANGED <<sdkVars, writable, isSourceBit, awritable, drive, peers, pending, ghost,
                   timers, emitted>>

\* the consumer of a stream is gone: the function that listen returned is called
Close ==
    /\ pc = "idle"
    /\ \E id \in DOMAIN streams :
         /\ streams[id].open
         /\ streams' = [streams EXCEPT ![id].open = FALSE]
         /\ listeners' = listeners \
                           (IF streams[id].of = "file" THEN FileRemove(id)
                            ELSE ExtensionsRemove(id))
    /\ UNCHANGED <<sdkVars, writable, isSourceBit, awritable, drive, peers, pending, pc, req, resp,
                   ghost, timers, emitted>>

\* a connected peer sends a message on an extension that getExtension registered:
\* its onmessage emits EXTENSION_EVENT on the archive (lines 56-61)
ExtensionMessage ==
    /\ pc = "idle"
    /\ \E peer \in peers : \E name \in RemoteExtensions(peer) \cap Elements(drive.exts) :
         \E content \in Contents :
           emitted' = Emit("archive", EXTENSION_EVENT,
                           [name |-> name, content |-> content, peer |-> peer])
    /\ UNCHANGED <<sdkVars, writable, isSourceBit, awritable, drive, peers, pending, pc, req, resp,
                   ghost, timers, listeners, streams>>

\* a block of a feed of the archive is downloaded or uploaded
Transfer ==
    /\ pc = "idle"
    /\ \E feed \in {"metadata", "content"} : \E direction \in {"download", "upload"} :
         \E index \in Indexes :
           emitted' = Emit(feed, direction, [index |-> index])
    /\ UNCHANGED <<sdkVars, writable, isSourceBit, awritable, drive, peers, pending, pc, req, resp,
                   ghost, timers, listeners, streams>>

\* the watchers of the archive report a change
Watch ==
    /\ pc = "idle"
    /\ emitted' = Emit("watcher", "change", [version |-> drive.version])
    /\ UNCHANGED <<sdkVars, writable, isSourceBit, awritable, drive, peers, pending, pc, req, resp,
                   ghost, timers, listeners, streams>>

----------------------------------------------------------------------------
(* The SDK.  Without an injected Bitdrive, loadArchive has the SDK built   *)
(* by the first request that needs it (lines 636-654); the requests here   *)
(* are any requests of the instance, each followed up to its loadArchive.  *)
(* sdk is "null", or the state of the instance it refers to: "open" or     *)
(* "closed".  gettingSDK is "null", or the state of the promise it refers  *)
(* to: "pending" or "rejected".                                            *)

\* a getSDK that does not look for a construction in flight
getSDK_eager == IF sdk # "null" THEN "sdk" ELSE "construct"

\* getSDK (): the branch it takes: Promise.resolve(sdk), the promise of the
\* construction in flight, or a new construction SDK(opts)
getSDK ==
    IF sdk # "null" THEN "sdk"
    ELSE IF gettingSDK # "null" THEN "share"
    ELSE "construct"

Loading(at, got) == [at |-> at, got |-> got]

\* loadArchive (key) of request i, up to its await: getBitdrive () returns the
\* Bitdrive there is, or the promise of getSDK ()
getBitdrive(i) ==
    /\ loads[i].at = "idle"
    /\ IF Bitdrive # "null"
       THEN /\ loads' = [loads EXCEPT ![i] = Loading("loaded", Bitdrive)]
            /\ UNCHANGED <<gettingSDK, sdkLog>>
       ELSE CASE getSDK = "sdk" ->
                   /\ loads' = [loads EXCEPT ![i] = Loading("resolved", "null")]
                   /\ UNCHANGED <<gettingSDK, sdkLog>>
              [] getSDK = "share" ->
                   /\ loads' = [loads EXCEPT ![i] =
                                  IF gettingSDK = "rejected" THEN Loading("failed", "null")
                                  ELSE Loading("awaiting", "null")]
                   /\ UNCHANGED <<gettingSDK, sdkLog>>
              [] getSDK = "construct" ->
                   /\ gettingSDK' = "pending"
                   /\ sdkLog' = [sdkLog EXCEPT !.constructed = @ + 1]
                   /\ loads' = [loads EXCEPT ![i] = Loading("awaiting", "null")]
    /\ UNCHANGED <<Bitdrive, sdk, onClose>>
    /\ UNCHANGED <<writable, isSourceBit, awritable, drive, peers, pending, pc, req, resp,
                   ghost, timers, listeners, streams, emitted>>

\* SDK(opts) resolves: the then of getSDK runs (lines 644-651); the requests that
\* await the construction are resumed after it
SDKResolved ==
    /\ gettingSDK = "pending"
    /\ sdk' = "open"
    /\ gettingSDK' = "null"
    /\ onClose' = "sdk.close"
    /\ Bitdrive' = "sdk.Bitdrive"
    /\ loads' = [i \in DOMAIN loads |->
                   IF loads[i].at = "awaiting" THEN Loading("resolved", "null") ELSE loads[i]]
    /\ UNCHANGED sdkLog
    /\ UNCHANGED <<writable, isSourceBit, awritable, drive, peers, pending, pc, req, resp,
                   ghost, timers, listeners, streams, emitted>>

\* SDK(opts) rejects: the then of getSDK does not run, gettingSDK keeps the
\* rejected promise
SDKRejected ==
    /\ gettingSDK = "pending"
    /\ gettingSDK' = "rejected"
    /\ loads' = [i \in DOMAIN loads |->
                   IF loads[i].at = "awaiting" THEN Loading("failed", "null") ELSE loads[i]]
    /\ UNCHANGED <<Bitdrive, sdk, onClose, sdkLog>>
    /\ UNCHANGED <<writable, isSourceBit, awritable, drive, peers, pending, pc, req, resp,
                   ghost, timers, listeners, streams, emitted>>

\* the await of loadArchive is over for request i: .then(({ Bitdrive }) => Bitdrive)
Loaded(i) ==
    /\ loads[i].at = "resolved"
    /\ loads' = [loads EXCEPT ![i] = Loading("loaded", "sdk.Bitdrive")]
    /\ UNCHANGED <<Bitdrive, sdk, gettingSDK, onClose, sdkLog>>
    /\ UNCHANGED <<writable, isSourceBit, awritable, drive, peers, pending, pc, req, resp,
                   ghost, timers, listeners, streams, emitted>>

\* request i is answered (or has failed with the rejection of its loadArchive)
Answer(i) ==
    /\ loads[i].at \in {"loaded", "failed"}
    /\ loads' = [loads EXCEPT ![i] = NotLoading]
    /\ UNCHANGED <<Bitdrive, sdk, gettingSDK, onClose, sdkLog>>
    /\ UNCHANGED <<writable, isSourceBit, awritable, drive, peers, pending, pc, req, resp,
                   ghost, timers, listeners, streams, emitted>>

\* the SDK instance as fetch.close() finds it
Instance ==
    IF sdk # "null" THEN sdk ELSE IF gettingSDK = "pending" THEN "constructing" ELSE "null"

\* fetch.close(): onClose(), up to the promise it returns being resolved
close ==
    /\ sdk' = IF onClose = "sdk.close" THEN "closed" ELSE sdk
    /\ sdkLog' = [sdkLog EXCEPT !.closed = TRUE, !.atClose = Instance]
    /\ UNCHANGED <<Bitdrive, gettingSDK, onClose, loads>>
    /\ UNCHANGED <<writable, isSourceBit, awritable, drive, peers, pending, pc, req, resp,
                   ghost, timers, listeners, streams, emitted>>

\* every request, on a peer's archive and on a stocked one
Next ==
    \/ bitFetch(Requests)
    \/ PeerOpen
    \/ PeerRemove
    \/ PeerTimeout
    \/ TimerLate
    \/ Resume
    \/ WriteFinish
    \/ Return({})

Spec == InitOf({Unknown, Stocked}) /\ [][Next]_vars

\* the file round trips on a new archive
NextFiles ==
    \/ bitFetch(FileRequests)
    \/ WriteFinish
    \/ Return({"etag", "put"})

SpecFiles == InitOf({Empty}) /\ [][NextFiles]_vars

\* the tag round trips on a new archive
NextTags ==
    \/ bitFetch(TagRequests)
    \/ Return({"tags"})

SpecTags == InitOf({Empty}) /\ [][NextTags]_vars

\* the peer wait on a peer's archive
NextPeers ==
    \/ bitFetch(PeerRequests)
    \/ PeerOpen
    \/ PeerRemove
    \/ PeerTimeout
    \/ TimerLate
    \/ Resume
    \/ Return({})

SpecPeers == InitOf({Unknown}) /\ [][NextPeers]_vars

\* the extensions of a new archive: messages out, messages in and their stream
NextExtensions ==
    \/ bitFetch(ExtensionRequests)
    \/ PeerOpen
    \/ PeerRemove
    \/ Read
    \/ Close
    \/ ExtensionMessage
    \/ Return({"gets"})

SpecExtensions == InitOf({Empty}) /\ [][NextExtensions]_vars

\* the event streams of the file paths of a new archive
NextStreams ==
    \/ bitFetch(StreamRequests)
    \/ Read
    \/ Close
    \/ Transfer
    \/ Watch
    \/ Return({})

SpecStreams == InitOf({Empty}) /\ [][NextStreams]_vars

\* concurrent requests and fetch.close(), with and without an injected Bitdrive
NextSDK ==
    \/ \E i \in 1..MaxRequests : getBitdrive(i)
    \/ SDKResolved
    \/ SDKRejected
    \/ \E i \in 1..MaxRequests : Loaded(i)
    \/ \E i \in 1..MaxRequests : Answer(i)
    \/ close

SpecSDK == InitWith({Empty}, {"injected", "null"}) /\ [][NextSDK]_vars

----------------------------------------------------------------------------
(* Properties.  In a state with pc = "done", req is the request just       *)
(* answered, resp.resp its response, resp.before the archive as the run    *)
(* found it and drive the archive as the run left it.                      *)

Answered == pc = "done"

Intercepted(r) == shouldIntercept(r)

MutatingCalls == {"makeDir", "createWriteStream", "unlink", "rmdir", "createTag", "deleteTag"}

\* a PUT, or a DELETE without x-clear: cache, on a file path or under /$/tags/
IsWriteRequest(r) ==
    /\ \/ r.method = "PUT"
       \/ r.method = "DELETE" /\ ~r.xclear
    /\ \/ IsFilePath(r)
       \/ StartsWithFolder(NormalPath(r.path), TAGS_FOLDER)

\* the writable option is off, or the handle the request was served from is not writable
NotWritable == ~writable \/ ~resp.handleWritable

\* entries and tags as the run found them; the version too, but for the first sync
\* of an archive whose version was not known
ArchiveKept ==
    /\ drive.entries = resp.before.entries
    /\ drive.tags = resp.before.tags
    /\ drive.version = resp.before.version \/ resp.before.version = 0

\* C1 as stated: every PUT and every DELETE without x-clear, on a file path or
\* under /$/tags/, made while the writable option or the handle's writable flag is
\* false, is answered 403, calls no mutating archive operation and leaves the
\* archive's entries, tags and version as they were.
C1_AlwaysForbidden ==
    (Answered /\ Intercepted(req) /\ IsWriteRequest(req) /\ NotWritable)
        => /\ Status(resp) = 403
           /\ resp.calls \cap MutatingCalls = {}
           /\ ArchiveKept

\* C1, amended: such a request that reaches the router (the archive was found,
\* is ready, has a version and the requested version was checked out) is answered
\* 403; one that does not is answered 404 or 500; in both cases no mutating
\* archive operation is called and entries, tags and version stay as they were.
C1_ForbiddenWhenRouted ==
    (Answered /\ Intercepted(req) /\ IsWriteRequest(req) /\ NotWritable)
        => /\ Routed(resp) => Status(resp) = 403 /\ resp.raised = NOT_WRITABLE_ERROR
           /\ ~Routed(resp) => Status(resp) \in {404, 500}
           /\ resp.calls \cap MutatingCalls = {}
           /\ ArchiveKept

\* a tag DELETE on a non-writable archive was answered 403
C1_Witness ==
    /\ Answered /\ IsWriteRequest(req) /\ NotWritable /\ Routed(resp)
    /\ req.method = "DELETE" /\ IsTagPath(req)
    /\ Status(resp) = 403

\* the status the catch at the end of bitFetch gives an error
CatchStatus(message) == IF message = NOT_WRITABLE_ERROR THEN 403 ELSE 500

NoHandle == resp.stage = "loadArchive" /\ resp.raised = ""

UnknownDrive == Status(resp) = 404 /\ BodyText(resp) = Str("Unknown drive")

\* bitFetch throws only for a URL it does not intercept, before any collaborator call
ThrowsOnlyUnintercepted ==
    /\ pc = "thrown" => ~Intercepted(req) /\ resp.calls = {}
    /\ Answered => Intercepted(req)

\* the error was caught where it was raised: a failed lookup of the path in GET and
\* HEAD, a failed lookup of the tag in GET /$/tags/T
CaughtInPlace ==
    /\ Routed(resp)
    /\ \/ req.method \in {"GET", "HEAD"} /\ resp.raised \in {"stat", ENOENT}
       \/ req.method = "GET" /\ resp.raised \in {"getTaggedVersion", TAG_NOT_FOUND}

\* C2 as stated: an intercepted request is always answered, never thrown: 404
\* 'Unknown drive' when the archive provider yields no handle, 403 for the
\* not-writable error, 500 for any other error a collaborator raises; bitFetch
\* throws only for a URL that is not intercepted, before any collaborator call.
C2_EveryErrorIs500 ==
    /\ ThrowsOnlyUnintercepted
    /\ Answered /\ NoHandle => UnknownDrive
    /\ Answered /\ resp.raised # "" => Status(resp) = CatchStatus(resp.raised)

\* C2, amended: as stated, except that an error caught where it was raised is
\* answered 404: a failed path lookup in GET and HEAD, a failed tag lookup in
\* GET /$/tags/T.  Every other error is answered 403 (not writable) or 500.
C2_ErrorsAnswered ==
    /\ ThrowsOnlyUnintercepted
    /\ Answered /\ NoHandle => UnknownDrive
    /\ Answered /\ resp.raised # "" =>
         Status(resp) = IF CaughtInPlace THEN 404 ELSE CatchStatus(resp.raised)

\* the metadata sync of an archive without a version failed and was answered 500
C2_Witness ==
    /\ Answered /\ Intercepted(req)
    /\ resp.raised = "update" /\ resp.stage = "update"
    /\ Status(resp) = 500

\* a GET on the live archive was answered by the router
LiveGet ==
    /\ Answered /\ Routed(resp)
    /\ req.method = "GET" /\ req.vspec = NoVersion
    /\ "ETag" \in DOMAIN resp.resp.headers

\* C3: without a versionSpec every GET response's ETag is the archive's current
\* version, quoted, and after a write (file PUT, file or directory DELETE) that
\* responded 200 the ETag of the next GET is strictly greater than the ETag of the
\* last GET before the write.
C3_ETagIncreases ==
    LiveGet =>
        /\ resp.resp.headers["ETag"] = ETag(drive.version)
        /\ (ghost.wrote /\ ghost.lastGet >= 0) => ETagVersion(resp) > ghost.lastGet

\* a GET that follows a GET and a 200 write
C3_Witness == LiveGet /\ ghost.wrote /\ ghost.lastGet >= 0

\* no collaborator call of the run was made to reject
NoFault == resp.raised \notin CollaboratorCalls

\* the request just answered by the router is method m on /$/tags/T of the live archive
TagRequest(m) ==
    /\ Answered /\ Routed(resp) /\ NoFault
    /\ req.method = m /\ IsTagPath(req) /\ req.vspec = NoVersion

\* C4: a PUT /$/tags/T that responds 200 has as its body the version V of the
\* archive when the PUT was handled; from then on every GET /$/tags/T responds 200
\* with body V, also after the version has advanced, until T is overwritten or
\* deleted; after a DELETE /$/tags/T that responded 200, GET /$/tags/T responds 404.
\* (ghost.tagLog holds, per tag, the body of its last 200 PUT not followed by a 200
\* DELETE.)
C4_TagRoundTrip ==
    /\ (TagRequest("PUT") /\ Status(resp) = 200)
           => BodyText(resp) = Str(Dec(resp.before.version))
    /\ TagRequest("GET") =>
           IF TagNameOf(req) \in DOMAIN ghost.tagLog
           THEN /\ Status(resp) = 200
                /\ BodyText(resp) = Str(Dec(ghost.tagLog[TagNameOf(req)]))
           ELSE Status(resp) = 404

\* a GET of a tag returns the version of its PUT after the archive has moved on
C4_Witness ==
    /\ TagRequest("GET") /\ Status(resp) = 200
    /\ TagNameOf(req) \in DOMAIN ghost.tagLog
    /\ drive.version > ghost.tagLog[TagNameOf(req)] + 1

\* a GET of a tag that was deleted is answered 404
C4_WitnessDeleted ==
    /\ TagRequest("GET") /\ Status(resp) = 404
    /\ TagNameOf(req) \notin DOMAIN ghost.tagLog
    /\ \E v \in 1..Len(drive.hist) : TagNameOf(req) \in DOMAIN drive.hist[v].tags

\* the request just answered by the router is GET /$/tags/ of the live archive
TagListing ==
    /\ Answered /\ Routed(resp) /\ NoFault
    /\ req.method = "GET" /\ NormalPath(req.path) = TAGS_FOLDER /\ req.vspec = NoVersion

\* C5: after any sequence of tag PUTs and tag DELETEs that responded 200, GET
\* /$/tags/ responds 200 with a JSON object whose entries are exactly the tags
\* created and not since deleted, each with the version of its most recent PUT.
C5_TagListing ==
    TagListing =>
        /\ Status(resp) = 200
        /\ BodyText(resp) = Json(ghost.tagLog)
        /\ resp.resp.headers["Content-Type"] = <<"application/json", "; charset=utf-8">>

\* the listing shows two tags, one of them overwritten at a later version
C5_Witness ==
    /\ TagListing /\ Status(resp) = 200
    /\ Cardinality(DOMAIN ghost.tagLog) = 2
    /\ \E n \in DOMAIN ghost.tagLog :
         \E v \in 1..Len(drive.hist) :
            n \in DOMAIN drive.hist[v].tags /\ drive.hist[v].tags[n] < ghost.tagLog[n]

\* the request just answered by the router is method m on path p of the live archive
FileRequest(m, p) ==
    /\ Answered /\ Routed(resp) /\ NoFault
    /\ req.method = m /\ NormalPath(req.path) = p /\ req.vspec = NoVersion

IsDir(d, p) == p \in DOMAIN d.entries /\ d.entries[p].kind = "dir"

\* C6: once a PUT of /a/b/c.txt has responded 200, the directories /a and /a/b
\* exist, and every GET of /a/b/ issued after that response (and before a DELETE
\* of the file or of a directory above it) lists c.txt.  (ghost.putOk holds the
\* files whose PUT responded 200 and that no later 200 DELETE removed.)
C6_NestedPutListed ==
    /\ (FileRequest("PUT", NestedFile) /\ Status(resp) = 200)
           => IsDir(drive, <<"a">>) /\ IsDir(drive, <<"a", "b">>)
    /\ (FileRequest("GET", NestedDir) /\ NPath(NestedFile) \in ghost.putOk)
           => /\ Status(resp) = 200
              /\ <<"c.txt">> \in BodyText(resp).v

\* a GET of /a/b/ after the PUT of /a/b/c.txt has responded 200
C6_Witness == FileRequest("GET", NestedDir) /\ NPath(NestedFile) \in ghost.putOk

\* the request just answered is a DELETE without x-clear: cache on a writable
\* archive, of a path that was a directory when the run began
DeleteOfDirectory ==
    /\ Answered /\ Routed(resp) /\ NoFault
    /\ req.method = "DELETE" /\ ~req.xclear /\ IsFilePath(req) /\ req.vspec = NoVersion
    /\ writable /\ resp.handleWritable
    /\ stat(resp.before, NormalPath(req.path)).ok
    /\ stat(resp.before, NormalPath(req.path)).isDirectory

\* C7: on a writable archive a DELETE without x-clear: cache of a directory that
\* still has entries does not respond 200 and leaves the directory and its
\* contents in place; of an empty directory it responds 200 and removes it; a path
\* that stats as a directory is removed with rmdir, never with unlink.
C7_DeleteDirectory ==
    DeleteOfDirectory =>
        LET p == NPath(NormalPath(req.path)) IN
        /\ "unlink" \notin resp.calls
        /\ "rmdir" \in resp.calls
        /\ IF HasChildren(resp.before, p)
           THEN Status(resp) # 200 /\ drive.entries = resp.before.entries
           ELSE Status(resp) = 200 /\ p \notin DOMAIN drive.entries

\* a DELETE of /a/b/ while it holds c.txt was refused
C7_Witness ==
    /\ DeleteOfDirectory
    /\ HasChildren(resp.before, NPath(NormalPath(req.path)))
    /\ Status(resp) = 500 /\ resp.raised = ENOTEMPTY

\* a DELETE of the empty /a/b/ removed it
C7_WitnessEmpty ==
    /\ DeleteOfDirectory
    /\ ~HasChildren(resp.before, NPath(NormalPath(req.path)))
    /\ NPath(NormalPath(req.path)) \in DOMAIN resp.before.entries
    /\ Status(resp) = 200

\* the request just answered is a GET of a file of the live archive (the path
\* /.well-known/bit is answered with the discovery record, whatever is stored there)
FileGet ==
    /\ Answered /\ Routed(resp) /\ NoFault
    /\ req.method = "GET" /\ IsFilePath(req) /\ req.vspec = NoVersion
    /\ req.accept # {"text/event-stream"}
    /\ NormalPath(req.path) # WellKnown
    /\ stat(drive, NormalPath(req.path)).ok
    /\ ~stat(drive, NormalPath(req.path)).isDirectory

\* the size of the file of FileGet
FileSize == stat(drive, NormalPath(req.path)).size

\* the ranges the Range header of the request parses to, for the file of FileGet
Parsed == parseRange(FileSize, req.range)

Satisfiable == req.range # NoRange /\ Parsed.code = 0 /\ Parsed.type = "bytes"

\* the response is 206 for the range start..end
Partial(start, end) ==
    /\ Status(resp) = 206
    /\ 0 <= start /\ start <= end /\ end < FileSize
    /\ resp.resp.headers["Content-Range"]
         = <<"bytes ", Dec(start), "-", Dec(end), "/", Dec(FileSize)>>
    /\ resp.resp.headers["Content-Length"] = Dec(end - start + 1)
    /\ resp.resp.data = [kind |-> "readStream", path |-> NormalPath(req.path),
                         start |-> start, end |-> end]

\* the response is 200 with the whole file
Full ==
    /\ Status(resp) = 200
    /\ resp.resp.headers["Content-Length"] = Dec(FileSize)
    /\ "Content-Range" \notin DOMAIN resp.resp.headers
    /\ resp.resp.data = [kind |-> "readStream", path |-> NormalPath(req.path),
                         start |-> 0, end |-> FileSize - 1]

\* C8 as stated: a GET of a file of size S is answered 206 exactly when the Range
\* header parses to a single satisfiable range of type bytes, then with
\* Content-Range bytes start-end/S, 0 <= start <= end < S, Content-Length
\* end-start+1 and the bytes start..end; for an absent, malformed, unsatisfiable,
\* non-bytes or multi-range header it is answered 200 with Content-Length S and
\* the full content.
C8_SingleRangeOnly ==
    FileGet =>
        IF Satisfiable /\ Len(req.range.specs) = 1
        THEN Partial(Parsed.ranges[1].start, Parsed.ranges[1].end)
        ELSE Full

\* C8, amended: the GET is answered 206 exactly when the Range header parses to
\* at least one satisfiable range of type bytes, and then for the first of them
\* (the others are ignored); otherwise 200 with Content-Length S and the full
\* content.
C8_FirstRangeServed ==
    FileGet =>
        IF Satisfiable
        THEN Partial(Parsed.ranges[1].start, Parsed.ranges[1].end)
        ELSE Full

\* bytes=1-9 on a file of 3 bytes was answered 206 for 1..2
C8_Witness ==
    /\ FileGet /\ Satisfiable /\ FileSize = 3
    /\ req.range.specs = << <<1, 9>> >>
    /\ Partial(1, 2)

\* the request just answered is a HEAD of something that exists: a file or a
\* directory of the live archive, the discovery record, the control root, the tags
HeadOfResource ==
    /\ Answered /\ Routed(resp) /\ NoFault
    /\ req.method = "HEAD"
    /\ LET path == NormalPath(req.path) IN
       \/ path = SPECIAL_FOLDER
       \/ StartsWithFolder(path, TAGS_FOLDER)
       \/ path = WellKnown
       \/ IsFilePath(req) /\ req.vspec = NoVersion /\ stat(drive, path).ok

EmptyBody == resp.resp.data = intoAsyncIterable(Str(""))

\* C9: every HEAD of an existing resource (file, directory, /.well-known/bit, the
\* control root /$/, the tags namespace) is answered 204 with empty data, and no
\* read stream is created for it.
C9_HeadNoBody ==
    HeadOfResource =>
        /\ Status(resp) = 204
        /\ EmptyBody
        /\ "createReadStream" \notin resp.calls

\* a HEAD of the file f.txt was answered 204 with its Content-Length
C9_Witness ==
    /\ HeadOfResource /\ NormalPath(req.path) = RootFile
    /\ Status(resp) = 204 /\ EmptyBody
    /\ resp.resp.headers["Content-Length"] = Dec(3)

\* the methods a routing branch implements
Implemented(path) ==
    IF path = SPECIAL_FOLDER THEN {"GET", "HEAD"}
    ELSE IF StartsWithFolder(path, TAGS_FOLDER) THEN {"GET", "HEAD", "PUT", "DELETE"}
    ELSE IF path = EXTENSIONS_FOLDER THEN {"GET"}
    ELSE IF StartsWithFolder(path, EXTENSIONS_FOLDER) THEN {"GET", "POST"}
    ELSE IF StartsWithFolder(path, SPECIAL_FOLDER) THEN {}
    ELSE {"GET", "HEAD", "PUT", "DELETE"}

\* the request just answered by the router reached one of the five branches
AtBranch ==
    /\ Answered /\ Routed(resp) /\ NoFault
    /\ LET path == NormalPath(req.path) IN
       StartsWithFolder(path, SPECIAL_FOLDER) =>
           \/ path = SPECIAL_FOLDER
           \/ StartsWithFolder(path, TAGS_FOLDER)
           \/ StartsWithFolder(path, EXTENSIONS_FOLDER)

Is2xx(status) == status \in 200..299

AllowOfWritability == IF writable /\ resp.handleWritable THEN ALL_ALLOW ELSE READABLE_ALLOW

\* C10: at every routing branch a request whose method the branch does not
\* implement is answered 405 with an Allow header that reflects the current
\* writability; in particular no method outside GET, HEAD, PUT, POST, DELETE is
\* ever answered 2xx.
C10_UnsupportedIs405 ==
    /\ (Answered /\ req.method \notin {"GET", "HEAD", "PUT", "POST", "DELETE"})
           => ~Is2xx(Status(resp))
    /\ (AtBranch /\ req.method \notin Implemented(NormalPath(req.path)))
           => /\ Status(resp) = 405
              /\ resp.resp.headers["Allow"] = AllowOfWritability

\* a PATCH of a file path was answered 405
C10_Witness ==
    /\ AtBranch /\ req.method = "PATCH" /\ IsFilePath(req)
    /\ Status(resp) = 405
    /\ resp.resp.headers["Allow"] = AllowOfWritability

\* the response has the header baseline: CORS, the canonical Link, Allow, ETag
HeaderBaseline ==
    LET headers == resp.resp.headers IN
    /\ {"Access-Control-Allow-Origin", "Link", "Allow", "ETag"} \subseteq DOMAIN headers
    /\ headers["Access-Control-Allow-Origin"] = "*"
    /\ headers["Link"] = <<"<", <<"bit://", "k", NormalPath(req.path)>>, ">; rel=\"canonical\"">>

\* C11: every response returned by the router (after readiness and checkout have
\* succeeded), whatever its branch and status, carries Access-Control-Allow-Origin: *,
\* the canonical Link of the archive key and the request path, an Allow header
\* and an ETag header.
C11_HeaderBaseline == (Answered /\ Routed(resp)) => HeaderBaseline

\* a 405 of the router carries the baseline
C11_Witness == Answered /\ Routed(resp) /\ Status(resp) = 405 /\ HeaderBaseline

\* the response just returned carries an Allow header
CarriesAllow == Answered /\ "Allow" \in DOMAIN resp.resp.headers

\* C12: an Allow header is GET, HEAD, PUT, POST, DELETE exactly when the writable
\* option is true and the handle served from is writable, and GET, HEAD otherwise;
\* a PUT or plain DELETE on a file or tag path is answered 403 exactly when the
\* Allow header of its own response omits PUT.
C12_AllowReflectsWritability ==
    CarriesAllow =>
        LET allow == resp.resp.headers["Allow"] IN
        /\ allow \in {ALL_ALLOW, READABLE_ALLOW}
        /\ allow = ALL_ALLOW <=> (writable /\ resp.handleWritable)
        /\ IsWriteRequest(req) => (Status(resp) = 403 <=> "PUT" \notin Elements(allow))

\* with the writable option on, a PUT on a handle that is not writable was
\* answered 403 with Allow: GET, HEAD
C12_Witness ==
    /\ CarriesAllow /\ IsWriteRequest(req) /\ req.method = "PUT"
    /\ writable /\ ~resp.handleWritable
    /\ Status(resp) = 403 /\ resp.resp.headers["Allow"] = READABLE_ALLOW

\* the request just answered looked up a tag that the archive does not have: by
\* GET or DELETE of /$/tags/T on the live archive, or by the versionSpec +T
MissingTagByPath(m) ==
    /\ TagRequest(m) /\ TagNameOf(req) \notin DOMAIN resp.before.tags
MissingTagByVersion ==
    /\ Answered /\ NoFault /\ resp.stage \in {"checkout", "route"}
    /\ req.vspec # NoVersion /\ ~IsNumber(req.vspec)
    /\ req.vspec \notin DOMAIN resp.before.tags

\* C13: a reference to a tag the archive does not have is answered 404, never 500,
\* wherever a tag is looked up: GET /$/tags/T, DELETE /$/tags/T on a writable
\* archive, a URL whose versionSpec +T is a tag name; the tags stay as they were.
C13_MissingTagIs404 ==
    (\/ MissingTagByPath("GET")
     \/ MissingTagByPath("DELETE") /\ writable /\ resp.handleWritable
     \/ MissingTagByVersion)
        => Status(resp) = 404 /\ drive.tags = resp.before.tags

\* a GET of /$/tags/T for a tag the archive does not have was answered 404
C13_Witness == MissingTagByPath("GET") /\ Status(resp) = 404

\* the request just answered by the router is a DELETE with x-clear: cache on a
\* file path
ClearCache ==
    /\ Answered /\ Routed(resp)
    /\ req.method = "DELETE" /\ req.xclear /\ IsFilePath(req)

\* C19: DELETE with x-clear: cache on a file path responds 200 whether or not the
\* archive is writable, calls archive.clear and nothing else (no stat, unlink,
\* rmdir or write), and leaves the version, entries and tags of the archive.
C19_ClearCacheOnly ==
    ClearCache =>
        /\ resp.calls = {"clear"}
        /\ NoFault => Status(resp) = 200
        /\ ArchiveKept

\* the cache of the whole archive was cleared with the writable option off
C19_Witness ==
    /\ ClearCache /\ NormalPath(req.path) = Root /\ ~writable
    /\ Status(resp) = 200 /\ resp.calls = {"clear"}

\* the request just answered by the router is a POST on /$/extensions/X/PEERID
PostToPeer ==
    /\ Answered /\ Routed(resp) /\ NoFault
    /\ req.method = "POST"
    /\ LET path == NormalPath(req.path) IN
       /\ StartsWithFolder(path, EXTENSIONS_FOLDER)
       /\ Len(SliceFolder(path, EXTENSIONS_FOLDER)) > 1
       /\ SliceFolder(path, EXTENSIONS_FOLDER)[2] # ""

TargetPeer == SliceFolder(NormalPath(req.path), EXTENSIONS_FOLDER)[2]

\* C15: POST on /$/extensions/X/PEERID sends the body to exactly one peer, the
\* connected peer that advertises X and whose key is PEERID, and responds 200; with
\* no such peer connected it responds 404, sends and broadcasts nothing and does
\* not read the body.
C15_SendToPeer ==
    PostToPeer =>
        IF TargetPeer \in peers /\ ExtensionNameOf(req) \in RemoteExtensions(TargetPeer)
        THEN /\ Status(resp) = 200
             /\ resp.sent = {Send(ExtensionNameOf(req), TargetPeer, req.body)}
        ELSE /\ Status(resp) = 404
             /\ resp.sent = {}
             /\ resp.calls \cap {"collect", "send", "broadcast"} = {}

\* a POST on /$/extensions/x/p1 sent its body to the connected p1
C15_Witness ==
    /\ PostToPeer /\ TargetPeer = "p1" /\ peers = {"p1"}
    /\ Status(resp) = 200 /\ resp.sent = {Send("x", "p1", 3)}

\* a peer's message on an extension was pushed into an open event stream
Relayed == emitted.cause.event = EXTENSION_EVENT /\ emitted.pushed # {}

\* C14: a peer's message on the extension X is relayed to an open /$/extensions/
\* event stream only if an earlier GET of /$/extensions/X registered X; an
\* extension that only a POST or the listing referred to is not observed.
\* (ghost.gets holds the X of the GETs of /$/extensions/X answered 200.)
C14_OnlyGetRegisters == Relayed => emitted.cause.ev.name \in ghost.gets

\* a message on x was relayed after a GET of /$/extensions/x
C14_Witness == Relayed /\ emitted.cause.ev.name \in ghost.gets

\* the listeners on the events of the archive
ArchiveListeners == {l \in listeners : l.emitter = "archive"}

\* C17: once the consumer of a /$/extensions/ event stream is gone, its three
\* listeners (extension-message, peer-open, peer-remove) are off the archive:
\* whatever streams were opened and closed, the listeners on the archive are
\* those of the streams still open, and none of a closed stream is called.
C17_ExtensionListenersRemoved ==
    /\ ArchiveListeners =
         UNION {ExtensionsListen(id) : id \in {i \in DOMAIN streams : streams[i].open}}
    /\ emitted.late = {}

\* two extension streams were opened and closed, and no listener is left
C17_Witness ==
    /\ Len(streams) >= 2
    /\ \A id \in DOMAIN streams : streams[id].of = "extensions" /\ ~streams[id].open
    /\ ArchiveListeners = {}

\* C16: once the consumer of a file event stream is gone, everything the stream
\* attached (the watcher of the path, the download and upload listeners on the
\* metadata feed and on the content feed) is detached: the listeners left are
\* those of the streams still open, and none of a closed stream is called.
C16_FileListenersRemoved ==
    /\ \A l \in listeners : streams[l.stream].open
    /\ emitted.late = {}

\* a file event stream was opened and closed
C16_Witness == \E id \in DOMAIN streams : streams[id].of = "file" /\ ~streams[id].open

\* what the last event pushed into the stream id
PushedInto(id) == {p.item : p \in {q \in emitted.pushed : q.stream = id}}

\* C18: into every open file event stream a block transfer pushes exactly one
\* event, named after the direction of the transfer (download, upload), with the
\* index of the block and as source the key of the feed of the transfer (metadata,
\* content); a change of the watched path pushes one change event with the
\* version of the archive.
C18_EventPerTransfer ==
    LET cause == emitted.cause IN
    /\ cause.emitter \in {"metadata", "content"} =>
         \A id \in emitted.open :
            PushedInto(id) = { [id |-> "", event |-> cause.event,
                                data |-> [index |-> cause.ev.index,
                                          source |-> cause.emitter]] }
    /\ cause.emitter = "watcher" =>
         \A id \in emitted.open :
            PushedInto(id) = { [id |-> "", event |-> "change", data |-> cause.ev.version] }

\* a block uploaded on the content feed was heard by an open file event stream
C18_Witness ==
    /\ emitted.cause.emitter = "content" /\ emitted.cause.event = "upload"
    /\ emitted.open # {}

TimedOut == "Timed out looking for peers"

\* the calls that sync, check out, read or write
ReadsAndWrites == CollaboratorCalls \ {"resolveURL", "loadArchive", "ready"}

\* C20: with the version of the archive unknown and no peer connected, the request
\* syncs, checks out, reads and writes nothing until peer-open; if the timer
\* (default 5000 ms) fires first the request ends with a 500 and no sync was made
\* for it; if a peer opens first the request goes on and the timer does not fail
\* it later.
C20_PeerWait ==
    /\ pc = "waitPeer" =>
         /\ resp.calls \cap ReadsAndWrites = {}
         /\ drive = resp.before /\ drive.version = 0 /\ peers = {}
         /\ Timer("pending") \in timers
    /\ (Answered /\ resp.stage = "wait") =>
         /\ Status(resp) = 500 /\ resp.raised = TimedOut
         /\ resp.calls \cap ReadsAndWrites = {}
         /\ drive = resp.before
    /\ (Answered /\ resp.raised = TimedOut) => resp.stage = "wait" /\ peers = {}
    /\ pc = "resumed" => peers # {} /\ Timer("pending") \notin timers

\* a request that waited for a peer was served while its timer was still to fire
C20_Witness ==
    /\ Answered /\ Routed(resp) /\ Status(resp) = 200
    /\ Timer("settled") \in timers /\ peers # {}

\* C21: a request whose URL carries a versionSpec (a number or a tag name) is
\* served from a checkout view and calls no mutating archive operation (makeDir,
\* createWriteStream, unlink, rmdir, createTag, deleteTag), on the view or on the
\* live archive, for any method and any path: the archive stays as it was.
C21_CheckoutNeverWrites ==
    (Answered /\ req.vspec # NoVersion) =>
        /\ resp.calls \cap MutatingCalls = {}
        /\ ArchiveKept

\* the last fetch.close() has resolved, and found an SDK instance constructed and
\* open, or under construction
ClosedWithSDK == sdkLog.closed /\ sdkLog.atClose \in {"constructing", "open"}

\* C22: once fetch.close() has resolved, the SDK instance that this fetch instance
\* constructed, or was constructing when close() was called, is closed and not left
\* open, however close() interleaves with the requests in flight; with an injected
\* Bitdrive no SDK is constructed and close() closes nothing.
C22_CloseClosesSDK ==
    /\ ClosedWithSDK => sdk # "open"
    /\ Bitdrive = "injected" =>
         sdk = "null" /\ gettingSDK = "null" /\ sdkLog.constructed = 0

\* fetch.close() found the SDK constructed and closed it
C22_Witness == sdkLog.closed /\ sdkLog.atClose = "open" /\ sdk = "closed"

\* the request just answered 200 by the router is a mutation of the live archive:
\* a file or directory PUT, a file or directory DELETE, a tag PUT, a tag DELETE
MutationAnswered ==
    /\ Answered /\ Routed(resp) /\ Status(resp) = 200
    /\ IsWriteRequest(req) /\ req.vspec = NoVersion

\* C23: the ETag of a 200 response to a mutating request is the version of the
\* archive after the effect of the operation has been committed; a file PUT never
\* responds 200 with the version before its write while its write stream is still
\* to finish.
C23_ETagAfterCommit ==
    MutationAnswered =>
        /\ resp.pend = <<>>
        /\ ETagVersion(resp) = drive.version

\* a file PUT was answered 200 with the version of its committed write
C23_Witness ==
    /\ MutationAnswered /\ req.method = "PUT" /\ NormalPath(req.path) = RootFile
    /\ resp.pend = <<>> /\ drive.version > resp.before.version
    /\ ETagVersion(resp) = drive.version

\* the steps before the router in the order of the code, each at most once
StepOrders ==
    { <<>>, <<"wait">>, <<"update">>, <<"checkout">>, <<"wait", "update">>,
      <<"update", "checkout">>, <<"wait", "update", "checkout">> }

\* C24: per request the peer wait and the metadata sync each happen at most once,
\* the wait before the sync, and only before the checkout; neither happens when
\* the version of the archive is known, the wait is skipped when a peer is
\* connected, a failed sync ends the request with 500 and is not retried, and
\* nothing after the checkout waits or syncs.
C24_WaitSyncOnce ==
    Answered =>
        LET steps == resp.steps
            known == resp.before.version # 0
        IN /\ steps \in StepOrders
           /\ known => steps \in {<<>>, <<"checkout">>}
           /\ resp.peersBefore # {} => "wait" \notin Elements(steps)
           /\ (~known /\ resp.peersBefore = {} /\ resp.stage \in {"wait", "update", "checkout", "route"})
                  => steps[1] = "wait"
           /\ (~known /\ resp.stage \in {"checkout", "route"}) => "update" \in Elements(steps)
           /\ resp.raised = "update" =>
                  /\ Status(resp) = 500 /\ resp.stage = "update"
                  /\ steps[Len(steps)] = "update"
                  /\ drive = resp.before

\* a request waited for a peer, synced and checked out, once each, and was served
C24_Witness ==
    /\ Answered /\ Routed(resp) /\ resp.steps = <<"wait", "update", "checkout">>

\* a failed sync after the wait was answered 500
C24_WitnessFailed ==
    /\ Answered /\ resp.raised = "update" /\ resp.steps = <<"wait", "update">>
    /\ Status(resp) = 500

\* the request just answered by the router reached getExtension: a POST on
\* /$/extensions/X or /$/extensions/X/PEERID, or a GET of /$/extensions/X that is
\* not for an event stream
ExtensionReference ==
    /\ Answered /\ Routed(resp)
    /\ LET path == NormalPath(req.path) IN
       StartsWithFolder(path, EXTENSIONS_FOLDER) /\ path # EXTENSIONS_FOLDER
    /\ req.method = "POST" \/ IsExtensionGet(req)

\* the request just answered by the router is the listing of /$/extensions/
ExtensionListing ==
    /\ Answered /\ Routed(resp)
    /\ NormalPath(req.path) = EXTENSIONS_FOLDER
    /\ req.method = "GET" /\ req.accept = {}

\* how many times name occurs in the list names
Occurrences(names, name) == Cardinality({i \in DOMAIN names : names[i] = name})

\* C25: over any sequence of GET and POST requests that refer to the extension X
\* of one archive, registerExtension is called at most once for X: the first
\* reference registers X, every later one finds it registered and does not
\* register again, and the names listed at /$/extensions/ contain X exactly once.
\* (drive.exts holds one name per call of registerExtension.)
C25_RegisteredOnce ==
    /\ \A name \in Elements(drive.exts) : Occurrences(drive.exts, name) = 1
    /\ ExtensionReference =>
         LET X == ExtensionNameOf(req)
             existing == X \in Elements(resp.before.exts)
         IN /\ Occurrences(drive.exts, X) = 1
            /\ "registerExtension" \in resp.calls <=> ~existing
            /\ existing => drive.exts = resp.before.exts
            /\ ~existing => drive.exts = Append(resp.before.exts, X)
    /\ ExtensionListing =>
         /\ BodyText(resp) = Json(drive.exts)
         /\ drive.exts = resp.before.exts

\* a POST on x found x registered by an earlier request and did not register it again
C25_Witness ==
    /\ ExtensionReference /\ req.method = "POST" /\ ExtensionNameOf(req) = "x"
    /\ "x" \in Elements(resp.before.exts)
    /\ "registerExtension" \notin resp.calls
    /\ Occurrences(drive.exts, "x") = 1

\* the listing showed x once after x was referred to
C25_WitnessListed ==
    /\ ExtensionListing /\ BodyText(resp) = Json(<<"x">>)

\* the request just answered by the router has a path under the control prefix /$/
ControlRequest ==
    /\ Answered /\ Routed(resp)
    /\ StartsWithFolder(NormalPath(req.path), SPECIAL_FOLDER)

\* the calls of the file-path handling
FilePathCalls ==
    {"stat", "resolveBitPath", "getContent", "readdir", "stats", "createReadStream",
     "makeDir", "createWriteStream", "unlink", "rmdir", "download", "clear"}

\* the response is the event stream of a file path (which watches the path)
FileEvents == resp.resp.data = [kind |-> "events", of |-> "file"]

\* C26: a request whose path begins with /$/ is never dispatched to the file-path
\* handling: for every method and every Accept header the control router answers
\* it (the listing, the tags, the extensions, 404 for any other path under /$/,
\* or 405), and it calls no stat, path resolution, watch, read or write stream,
\* unlink, rmdir, download or clear on that path.
C26_ControlStaysInRouter ==
    ControlRequest =>
        /\ resp.calls \cap FilePathCalls = {}
        /\ ~FileEvents
        /\ LET path == NormalPath(req.path) IN
           (/\ path # SPECIAL_FOLDER
            /\ ~StartsWithFolder(path, TAGS_FOLDER)
            /\ ~StartsWithFolder(path, EXTENSIONS_FOLDER)) => Status(resp) = 404

\* a path under /$/ that is no control namespace was answered 404 by the router
C26_Witness ==
    /\ ControlRequest /\ NormalPath(req.path) = <<"", "$", "other">>
    /\ Status(resp) = 404 /\ resp.calls = {}

\* the body of the response just returned is a listing or another rendered
\* document: JSON or an HTML page
CarriesListing ==
    /\ resp.resp.data.kind = "bytes"
    /\ BodyText(resp).t \in {"json", "html"}

\* the request just answered by the router is a GET of /$/extensions/ that is not
\* for an event stream
ExtensionsRootGet ==
    /\ Answered /\ Routed(resp)
    /\ NormalPath(req.path) = EXTENSIONS_FOLDER
    /\ req.method = "GET" /\ "text/event-stream" \notin req.accept

\* C27: status 204 is only returned with an empty body, and every response that
\* carries a listing (control root, extensions root, directory) has status 200;
\* a non-streaming GET of /$/extensions/ returns the registered extension names
\* as a directory listing with status 200 and x-is-directory: true.
C27_NoContentIsEmpty ==
    Answered =>
        /\ Status(resp) = 204 => EmptyBody
        /\ CarriesListing => Status(resp) = 200
        /\ ExtensionsRootGet =>
             /\ Status(resp) = 200
             /\ resp.resp.headers["x-is-directory"] = "true"
             /\ CarriesListing

\* a HEAD of a directory was answered 204 with an empty body
C27_Witness ==
    /\ Answered /\ Routed(resp) /\ req.method = "HEAD" /\ NormalPath(req.path) = RootDir
    /\ Status(resp) = 204 /\ EmptyBody

RequestIds == 1..MaxRequests

\* C28: for any number of concurrent requests on one fetch instance the SDK
\* constructor is called at most once when no Bitdrive was injected and never
\* when one was: every request that arrives while the construction is in flight
\* awaits that construction, and every request after it uses the Bitdrive of the
\* constructed SDK.
C28_OneConstruction ==
    /\ sdkLog.constructed <= 1
    /\ Bitdrive = "injected" => sdkLog.constructed = 0
    /\ \A i \in RequestIds :
         /\ loads[i].at = "awaiting" => gettingSDK = "pending" /\ sdkLog.constructed = 1
         /\ loads[i].at = "resolved" => sdk # "null"
         /\ loads[i].at = "loaded" => loads[i].got = Bitdrive /\ Bitdrive # "null"
         /\ loads[i].at = "failed" => gettingSDK = "rejected"

\* after one construction every request in flight has the Bitdrive of its SDK
C28_Witness ==
    /\ sdkLog.constructed = 1
    /\ \A i \in RequestIds : loads[i] = Loading("loaded", "sdk.Bitdrive")

\* two requests await the construction at the same time
C28_WitnessShared ==
    /\ sdkLog.constructed = 1 /\ gettingSDK = "pending"
    /\ Cardinality({i \in RequestIds : loads[i].at = "awaiting"}) >= 2

\* C29: a request that is not an event stream leaves nothing on the archive handle
\* when it ends: once it has returned its response, also the 500 of a peer wait
\* that timed out, the one-shot peer-open listener of its wait is off the archive,
\* so that requests that time out one after the other do not pile up listeners.
C29_NoListenerLeft == pc \in {"done", "idle"} => WaitListeners = {}

\* a request that waited was served after a peer opened, and its listener is gone
C29_Witness ==
    /\ Answered /\ Routed(resp) /\ resp.steps[1] = "wait"
    /\ WaitListeners = {}

====
